---- MODULE Spec2Model ----
(***************************************************************************)
(* FIT-FLIX RAG system: the text splitter (utils/text_splitter.py) and the *)
(* document retriever (retrieval/retriever.py).                            *)
(*                                                                         *)
(* A Python str is a sequence of one-character strings.  The alphabet is   *)
(* one letter, the blank and the full stop: the splitter only tells        *)
(* whitespace (\s, str.strip, str.split), sentence punctuation ([.!?]) and *)
(* every other character apart.                                            *)
(***************************************************************************)
EXTENDS Integers, Sequences, FiniteSets, TLC

\* ---------------------------------------------------------------- bounds
MaxLen == 6
MaxChunk == 4
MaxDocs == 101
MaxAdds == 2
MaxN == 3
MaxBatch == 2
MaxResults == 2
MaxFiles == 2
MaxStepLen == 4
Queries == {0, 3}

\* The encoding of Python's None for an optional int argument.
None == -1

Chars == {"a", " ", "."}

\* ------------------------------------------------------- Python str/list
IsSpace(c) == c = " "

IsPunct(c) == c = "."

RECURSIVE LStrip(_)
LStrip(s) ==
    IF s = <<>> THEN <<>>
    ELSE IF IsSpace(Head(s)) THEN LStrip(Tail(s)) ELSE s

RECURSIVE RStrip(_)
RStrip(s) ==
    IF s = <<>> THEN <<>>
    ELSE IF IsSpace(s[Len(s)]) THEN RStrip(SubSeq(s, 1, Len(s) - 1)) ELSE s

\* str.strip()
Strip(s) == LStrip(RStrip(s))

\* str.split(): the maximal runs of non-whitespace characters
RECURSIVE SplitWordsFrom(_, _, _)
SplitWordsFrom(s, i, word) ==
    IF i > Len(s) THEN (IF word = <<>> THEN <<>> ELSE <<word>>)
    ELSE IF IsSpace(s[i])
         THEN (IF word = <<>> THEN <<>> ELSE <<word>>) \o SplitWordsFrom(s, i + 1, <<>>)
         ELSE SplitWordsFrom(s, i + 1, Append(word, s[i]))

SplitWords(s) == SplitWordsFrom(s, 1, <<>>)

\* ' '.join(words)
RECURSIVE Join(_)
Join(words) ==
    IF words = <<>> THEN <<>>
    ELSE IF Len(words) = 1 THEN words[1]
    ELSE words[1] \o <<" ">> \o Join(Tail(words))

\* str.find(' '): 0-based index of the first blank, -1 when there is none
RECURSIVE FindSpaceFrom(_, _)
FindSpaceFrom(s, i) ==
    IF i > Len(s) THEN -1
    ELSE IF IsSpace(s[i]) THEN i - 1 ELSE FindSpaceFrom(s, i + 1)

FindSpace(s) == FindSpaceFrom(s, 1)

\* s[-n:] for n >= 0   (s[-0:] is s[0:], the whole string)
LastChars(s, n) ==
    IF n = 0 \/ n >= Len(s) THEN s ELSE SubSeq(s, Len(s) - n + 1, Len(s))

\* s[k:] for k >= 0
DropChars(s, k) == IF k >= Len(s) THEN <<>> ELSE SubSeq(s, k + 1, Len(s))

\* x or default, for an optional int: None and 0 are both falsy
PyOr(x, default) == IF x = None \/ x = 0 THEN default ELSE x

\* end of the whitespace run that starts at position i (1-based, exclusive)
RECURSIVE SkipSpaces(_, _)
SkipSpaces(s, i) ==
    IF i <= Len(s) /\ IsSpace(s[i]) THEN SkipSpaces(s, i + 1) ELSE i

\* re.split(r'(?<=[.!?])\s+', text): cut at every whitespace run that
\* follows sentence punctuation; the pieces keep everything else, and the
\* piece after a final match is the empty string.
RECURSIVE ReSplitFrom(_, _, _)
ReSplitFrom(s, i, piece) ==
    IF i > Len(s) THEN <<piece>>
    ELSE IF i > 1 /\ IsPunct(s[i - 1]) /\ IsSpace(s[i])
         THEN <<piece>> \o ReSplitFrom(s, SkipSpaces(s, i), <<>>)
         ELSE ReSplitFrom(s, i + 1, Append(piece, s[i]))

ReSplit(s) == ReSplitFrom(s, 1, <<>>)

\* ------------------------------------------------------------ TextSplitter
\* Config().chunk_size and Config().chunk_overlap, copied by __init__
ConfigChunkSize == 1000
ConfigChunkOverlap == 200

TextSplitterInit == [chunk_size |-> ConfigChunkSize, chunk_overlap |-> ConfigChunkOverlap]

\* [s + ' ' for s in sentences if s.strip()]
RECURSIVE KeepSentences(_)
KeepSentences(pieces) ==
    IF pieces = <<>> THEN <<>>
    ELSE (IF Strip(Head(pieces)) # <<>> THEN <<Head(pieces) \o <<" ">>>> ELSE <<>>)
         \o KeepSentences(Tail(pieces))

_split_by_sentences(text) == KeepSentences(ReSplit(text))

_get_overlap_text(text, overlap_size) ==
    IF Len(text) <= overlap_size THEN text
    ELSE LET overlap_text == LastChars(text, overlap_size)
             space_idx == FindSpace(overlap_text)
         IN IF space_idx > 0 THEN DropChars(overlap_text, space_idx + 1)
            ELSE overlap_text

\* the loop "for word in reversed(words)" from position i downwards
RECURSIVE OverlapWordsFrom(_, _, _, _, _)
OverlapWordsFrom(words, i, overlap_size, overlap_words, current_length) ==
    IF i < 1 THEN overlap_words
    ELSE IF current_length + Len(words[i]) + 1 > overlap_size THEN overlap_words
    ELSE OverlapWordsFrom(words, i - 1, overlap_size, <<words[i]>> \o overlap_words,
                          current_length + Len(words[i]) + 1)

_get_overlap_words(words, overlap_size) ==
    IF words = <<>> THEN <<>>
    ELSE OverlapWordsFrom(words, Len(words), overlap_size, <<>>, 0)

\* sum(len(w) + 1 for w in current_chunk)
RECURSIVE EstimatedLength(_)
EstimatedLength(words) ==
    IF words = <<>> THEN 0 ELSE Len(Head(words)) + 1 + EstimatedLength(Tail(words))

\* one iteration of "for word in words"; st = [chunks, current_chunk]
WordStep(st, word, chunk_size, chunk_overlap) ==
    LET current_length == EstimatedLength(st.current_chunk)
    IN IF current_length + Len(word) > chunk_size
       THEN IF st.current_chunk # <<>>
            THEN [chunks |-> Append(st.chunks, Join(st.current_chunk)),
                  current_chunk |-> _get_overlap_words(st.current_chunk, chunk_overlap) \o <<word>>]
            ELSE [chunks |-> Append(st.chunks, word), current_chunk |-> <<>>]
       ELSE [chunks |-> st.chunks, current_chunk |-> Append(st.current_chunk, word)]

RECURSIVE WordLoop(_, _, _, _, _)
WordLoop(words, i, st, chunk_size, chunk_overlap) ==
    IF i > Len(words) THEN st
    ELSE WordLoop(words, i + 1, WordStep(st, words[i], chunk_size, chunk_overlap),
                  chunk_size, chunk_overlap)

_split_long_sentence(sentence, chunk_size, chunk_overlap) ==
    LET words == SplitWords(sentence)
        st == WordLoop(words, 1, [chunks |-> <<>>, current_chunk |-> <<>>],
                       chunk_size, chunk_overlap)
    IN IF st.current_chunk # <<>> THEN Append(st.chunks, Join(st.current_chunk))
       ELSE st.chunks

\* one iteration of "for sentence in sentences"; st = [chunks, current_chunk]
SentenceStep(st, sentence, chunk_size, chunk_overlap) ==
    IF Len(st.current_chunk) + Len(sentence) > chunk_size
    THEN IF st.current_chunk # <<>>
         THEN [chunks |-> Append(st.chunks, Strip(st.current_chunk)),
               current_chunk |-> _get_overlap_text(st.current_chunk, chunk_overlap) \o sentence]
         ELSE LET sentence_chunks == _split_long_sentence(sentence, chunk_size, chunk_overlap)
              IN [chunks |-> st.chunks \o SubSeq(sentence_chunks, 1, Len(sentence_chunks) - 1),
                  current_chunk |-> IF sentence_chunks # <<>>
                                    THEN sentence_chunks[Len(sentence_chunks)] ELSE <<>>]
    ELSE [chunks |-> st.chunks, current_chunk |-> st.current_chunk \o sentence]

RECURSIVE SentenceLoop(_, _, _, _, _)
SentenceLoop(sentences, i, st, chunk_size, chunk_overlap) ==
    IF i > Len(sentences) THEN st
    ELSE SentenceLoop(sentences, i + 1,
                      SentenceStep(st, sentences[i], chunk_size, chunk_overlap),
                      chunk_size, chunk_overlap)

\* the chunk size and overlap split_text works with (lines 70-71)
EffectiveChunkSize(self, chunk_size) == PyOr(chunk_size, self.chunk_size)

EffectiveChunkOverlap(self, chunk_overlap) == PyOr(chunk_overlap, self.chunk_overlap)

\* lines 76-103: the text is longer than chunk_size
SplitLongText(text, chunk_size, chunk_overlap) ==
    LET sentences == _split_by_sentences(text)
        st == SentenceLoop(sentences, 1, [chunks |-> <<>>, current_chunk |-> <<>>],
                           chunk_size, chunk_overlap)
    IN IF Strip(st.current_chunk) # <<>>
       THEN Append(st.chunks, Strip(st.current_chunk))
       ELSE st.chunks

\* a split_text that treats a short text like a final buffer: stripped, and
\* dropped when blank
split_text_strips(self, text, chunk_size_arg, chunk_overlap_arg) ==
    LET chunk_size == EffectiveChunkSize(self, chunk_size_arg)
        chunk_overlap == EffectiveChunkOverlap(self, chunk_overlap_arg)
    IN IF Len(text) <= chunk_size
       THEN (IF Strip(text) # <<>> THEN <<Strip(text)>> ELSE <<>>)
       ELSE SplitLongText(text, chunk_size, chunk_overlap)

split_text(self, text, chunk_size_arg, chunk_overlap_arg) ==
    LET chunk_size == EffectiveChunkSize(self, chunk_size_arg)
        chunk_overlap == EffectiveChunkOverlap(self, chunk_overlap_arg)
    IN IF Len(text) <= chunk_size THEN <<text>>
       ELSE SplitLongText(text, chunk_size, chunk_overlap)

\* ----------------------------------------------- split_text, loop by loop
\* The frame of a running split_text: the sentences and the index i of
\* the one the outer loop is at, the loop's chunks and current_chunk (st);
\* inside _split_long_sentence, the words, the index j of the one its loop
\* is at, and its chunks and current_chunk (wst).
NoFrame ==
    [sentences |-> <<>>, i |-> 1, st |-> [chunks |-> <<>>, current_chunk |-> <<>>],
     words |-> <<>>, j |-> 1, wst |-> [chunks |-> <<>>, current_chunk |-> <<>>]]

\* lines 76-80: the frame when the sentence loop is entered
EnterSentences(text) == [NoFrame EXCEPT !.sentences = _split_by_sentences(text)]

\* lines 82-96, one pass of "for sentence in sentences": either the pass
\* calls _split_long_sentence (line 92; the frame enters the word loop),
\* or it completes and the loop moves to the next sentence.  [pc, frame]
SentencePass(frame, chunk_size, chunk_overlap) ==
    LET sentence == frame.sentences[frame.i]
    IN IF /\ Len(frame.st.current_chunk) + Len(sentence) > chunk_size
          /\ frame.st.current_chunk = <<>>
       THEN [pc |-> "word_loop",
             frame |-> [frame EXCEPT !.words = SplitWords(sentence), !.j = 1,
                                     !.wst = NoFrame.wst]]
       ELSE [pc |-> "sentence_loop",
             frame |-> [frame EXCEPT
                           !.st = SentenceStep(@, sentence, chunk_size, chunk_overlap),
                           !.i = @ + 1]]

\* one pass of "for word in words" that leaves a word longer than
\* chunk_size where it is instead of emitting it
WordPass_keeps_long_word(frame, chunk_size, chunk_overlap) ==
    IF /\ EstimatedLength(frame.wst.current_chunk) + Len(frame.words[frame.j])
             > chunk_size
       /\ frame.wst.current_chunk = <<>>
    THEN frame
    ELSE [frame EXCEPT
             !.wst = WordStep(@, frame.words[frame.j], chunk_size, chunk_overlap),
             !.j = @ + 1]

\* lines 133-149, one pass of "for word in words"
WordPass(frame, chunk_size, chunk_overlap) ==
    [frame EXCEPT !.wst = WordStep(@, frame.words[frame.j], chunk_size, chunk_overlap),
                  !.j = @ + 1]

\* lines 151-155 and 93-94: _split_long_sentence returns its chunks, the
\* sentence pass that called it completes
WordReturn(frame) ==
    LET sentence_chunks == IF frame.wst.current_chunk # <<>>
                           THEN Append(frame.wst.chunks, Join(frame.wst.current_chunk))
                           ELSE frame.wst.chunks
    IN [frame EXCEPT
           !.st = [chunks |-> @.chunks
                                \o SubSeq(sentence_chunks, 1, Len(sentence_chunks) - 1),
                   current_chunk |-> IF sentence_chunks # <<>>
                                     THEN sentence_chunks[Len(sentence_chunks)]
                                     ELSE <<>>],
           !.i = @ + 1]

\* lines 98-103: the list split_text returns after the sentence loop
SplitReturn(frame) ==
    IF Strip(frame.st.current_chunk) # <<>>
    THEN Append(frame.st.chunks, Strip(frame.st.current_chunk))
    ELSE frame.st.chunks

\* ------------------------------------------------------- split_documents
\* A document is a Python dict, modelled as a record: a key the dict lacks
\* is a field the record lacks.  A metadata entry holding Python's None
\* instead of a dict is the record NoneMetadata.
NoneMetadata == [none |-> TRUE]

\* the metadata of a chunk with chunk_id numbered from 1
ChunkMetadata_from_one(doc, i, chunks) ==
    [chunk_id |-> i + 1, total_chunks |-> Len(chunks),
     original_length |-> Len(doc.content)] @@ doc.metadata

\* lines 41-46: {**doc['metadata'], 'chunk_id': i, 'total_chunks':
\* len(chunks), 'original_length': len(doc['content'])}; the three stamped
\* keys override equal keys of the document's metadata
ChunkMetadata(doc, i, chunks) ==
    [chunk_id |-> i, total_chunks |-> Len(chunks),
     original_length |-> Len(doc.content)] @@ doc.metadata

\* lines 36-48, the body of the try for one document: [ok, value].  It
\* raises KeyError on a missing 'content' key, and on the first chunk
\* KeyError on a missing 'metadata' key or TypeError on a None metadata;
\* nothing was appended for the document when it raises.
SplitOneDocument(self, doc) ==
    IF "content" \notin DOMAIN doc THEN [ok |-> FALSE, value |-> <<>>]
    ELSE LET chunks == split_text(self, doc.content, None, None)
         IN IF chunks = <<>> THEN [ok |-> TRUE, value |-> <<>>]
            ELSE IF "metadata" \notin DOMAIN doc THEN [ok |-> FALSE, value |-> <<>>]
            ELSE IF doc.metadata = NoneMetadata THEN [ok |-> FALSE, value |-> <<>>]
            ELSE [ok |-> TRUE,
                  value |-> [k \in 1..Len(chunks) |->
                               [content |-> chunks[k],
                                metadata |-> ChunkMetadata(doc, k - 1, chunks)]]]

\* line 51, the handler's message: doc.get('metadata', {}).get('source',
\* 'unknown') raises AttributeError when the metadata entry is None
HandlerRaises(doc) == "metadata" \in DOMAIN doc /\ doc.metadata = NoneMetadata

\* lines 32-55: the loop over the documents from the k-th on;
\* [raised, value]
RECURSIVE SplitDocumentsFrom(_, _, _, _)
SplitDocumentsFrom(self, documents, k, chunked_documents) ==
    IF k > Len(documents) THEN [raised |-> FALSE, value |-> chunked_documents]
    ELSE LET r == SplitOneDocument(self, documents[k])
         IN IF r.ok
            THEN SplitDocumentsFrom(self, documents, k + 1, chunked_documents \o r.value)
            ELSE IF HandlerRaises(documents[k])
            THEN [raised |-> TRUE, value |-> <<>>]
            ELSE SplitDocumentsFrom(self, documents, k + 1, chunked_documents)

split_documents(self, documents) == SplitDocumentsFrom(self, documents, 1, <<>>)

\* -------------------------------------------------------- collaborators
\* Texts handed to the retriever are numbers below NumContents; the
\* embedding model is a deterministic function of the text (a permutation,
\* so that distinct texts have distinct vectors and no text is its own
\* vector's index by construction).
NumContents == 7

\* the records the collection may hold: one full upload and two small ones
MaxStore == MaxDocs + 4

\* SentenceTransformer.encode of one text
Embed(text) == (3 * text + 1) % NumContents

\* squared L2 distance, the collection's default space
Distance(e1, e2) == (e1 - e2) * (e1 - e2)

\* seq[i:j] with 0-based i and j
PySlice(seq, i, j) ==
    IF i >= Len(seq) THEN <<>> ELSE SubSeq(seq, i + 1, IF j <= Len(seq) THEN j ELSE Len(seq))

\* EmbeddingManager.embed_texts / embed_text
embed_texts(texts) == [k \in 1..Len(texts) |-> Embed(texts[k])]

embed_text(text) == Embed(text)

StoredIds(store) == {store[k].id : k \in DOMAIN store}

BatchRecords(documents, metadatas, ids, embeddings) ==
    [k \in 1..Len(ids) |->
        [id |-> ids[k], document |-> documents[k],
         metadata |-> metadatas[k], embedding |-> embeddings[k]]]

\* chromadb Collection.add.  The four lists must be of one length and the
\* ids of a call distinct, or it raises.  For an id the collection already
\* holds, the outcome depends on the chromadb version: the record is
\* silently ignored (on_existing = "ignore") or the call raises ("raise").
\* Stored records are never overwritten by add.
CollectionAdd(store, documents, metadatas, ids, embeddings, on_existing) ==
    IF \/ Len(documents) # Len(ids) \/ Len(metadatas) # Len(ids)
       \/ Len(embeddings) # Len(ids)
       \/ Cardinality({ids[k] : k \in DOMAIN ids}) # Len(ids)
    THEN [ok |-> FALSE, store |-> store]
    ELSE LET recs == BatchRecords(documents, metadatas, ids, embeddings)
             held == StoredIds(store)
         IN IF \E k \in DOMAIN ids : ids[k] \in held
            THEN IF on_existing = "raise"
                 THEN [ok |-> FALSE, store |-> store]
                 ELSE [ok |-> TRUE,
                       store |-> store \o SelectSeq(recs, LAMBDA r : r.id \notin held)]
            ELSE [ok |-> TRUE, store |-> store \o recs]

\* position of the record nearest to q among those not in taken; ties go to
\* the earlier record
NearestFrom(store, q, taken) ==
    LET rest == DOMAIN store \ taken
        dists == {Distance(store[i].embedding, q) : i \in rest}
        dmin == CHOOSE d \in dists : \A e \in dists : d <= e
    IN CHOOSE i \in rest :
          /\ Distance(store[i].embedding, q) = dmin
          /\ \A j \in rest : Distance(store[j].embedding, q) = dmin => i <= j

RECURSIVE Nearest(_, _, _, _)
Nearest(store, q, n, picked) ==
    IF Len(picked) >= n \/ Len(picked) >= Len(store) THEN picked
    ELSE Nearest(store, q, n,
                 Append(picked, NearestFrom(store, q, {picked[k] : k \in DOMAIN picked})))

NoResults == [documents |-> <<>>, metadatas |-> <<>>, distances |-> <<>>]

\* chromadb Collection.query for one query embedding: the n_results
\* nearest records, best first; n_results <= 0 raises.  The three lists are
\* results['documents'][0], results['metadatas'][0], results['distances'][0].
CollectionQuery(store, query_embedding, n_results) ==
    IF n_results <= 0 THEN [ok |-> FALSE, results |-> NoResults]
    ELSE LET idx == Nearest(store, query_embedding, n_results, <<>>)
         IN [ok |-> TRUE,
             results |-> [documents |-> [k \in 1..Len(idx) |-> store[idx[k]].document],
                          metadatas |-> [k \in 1..Len(idx) |-> store[idx[k]].metadata],
                          distances |-> [k \in 1..Len(idx) |->
                                           Distance(store[idx[k]].embedding, query_embedding)]]]

\* ------------------------------------------------------- DocumentRetriever
batch_size == 100

\* the generated ids numbered from 1
AutoIds_from_one(documents) == [k \in 1..Len(documents) |-> <<"doc", k>>]

\* ids = [f"doc_{i}" for i in range(len(documents))]
AutoIds(documents) == [k \in 1..Len(documents) |-> <<"doc", k - 1>>]

\* one collaborator call of an operation, as it appears in its call trace
Called(fn, size, ok) == [fn |-> fn, size |-> size, ok |-> ok]

\* the loop with every batch's embeddings sliced from the start of the list
RECURSIVE AddBatches_first_slice(_, _, _, _, _, _, _, _)
AddBatches_first_slice(st, documents, metadata, ids, embeddings, i, fail_at, on_existing) ==
    IF i >= Len(documents) THEN st
    ELSE LET batch_docs == PySlice(documents, i, i + batch_size)
             batch_metadata == PySlice(metadata, i, i + batch_size)
             batch_ids == PySlice(ids, i, i + batch_size)
             batch_embeddings == PySlice(embeddings, 0, Len(batch_ids))
             res == IF fail_at = (i \div batch_size) + 1
                    THEN [ok |-> FALSE, store |-> st.store]
                    ELSE CollectionAdd(st.store, batch_docs, batch_metadata, batch_ids,
                                       batch_embeddings, on_existing)
             trace == Append(st.trace, Called("add", Len(batch_ids), res.ok))
         IN IF ~res.ok THEN [store |-> st.store, trace |-> trace, ok |-> FALSE]
            ELSE AddBatches_first_slice([store |-> res.store, trace |-> trace, ok |-> TRUE],
                            documents, metadata, ids, embeddings, i + batch_size,
                            fail_at, on_existing)

\* the loop "for i in range(0, len(documents), batch_size)" from offset i;
\* st = [store, trace, ok]; the store rejects the fail_at-th insertion call
RECURSIVE AddBatches(_, _, _, _, _, _, _, _)
AddBatches(st, documents, metadata, ids, embeddings, i, fail_at, on_existing) ==
    IF i >= Len(documents) THEN st
    ELSE LET batch_docs == PySlice(documents, i, i + batch_size)
             batch_metadata == PySlice(metadata, i, i + batch_size)
             batch_ids == PySlice(ids, i, i + batch_size)
             batch_embeddings == PySlice(embeddings, i, i + batch_size)
             res == IF fail_at = (i \div batch_size) + 1
                    THEN [ok |-> FALSE, store |-> st.store]
                    ELSE CollectionAdd(st.store, batch_docs, batch_metadata, batch_ids,
                                       batch_embeddings, on_existing)
             trace == Append(st.trace, Called("add", Len(batch_ids), res.ok))
         IN IF ~res.ok THEN [store |-> st.store, trace |-> trace, ok |-> FALSE]
            ELSE AddBatches([store |-> res.store, trace |-> trace, ok |-> TRUE],
                            documents, metadata, ids, embeddings, i + batch_size,
                            fail_at, on_existing)

\* lines 63-89 of add_documents, the collection being set; ids = <<>> is
\* "no ids" (None and the empty list are both falsy).  env says what the
\* collaborators do: [embed_fails, add_fails_at, on_existing].
add_documents(store, documents, metadata, ids_arg, env) ==
    LET ids == IF ids_arg = <<>> THEN AutoIds(documents) ELSE ids_arg
    IN IF env.embed_fails
       THEN [store |-> store,
             trace |-> <<Called("embed_texts", Len(documents), FALSE)>>, ok |-> FALSE]
       ELSE AddBatches([store |-> store,
                        trace |-> <<Called("embed_texts", Len(documents), TRUE)>>,
                        ok |-> TRUE],
                       documents, metadata, ids, embed_texts(documents), 0,
                       env.add_fails_at, env.on_existing)

\* lines 119-128 with the metadata of every result taken from one position
FormatResults_misaligned(results) ==
    IF results.documents # <<>>
    THEN [k \in 1..Len(results.documents) |->
            [content |-> results.documents[k],
             metadata |-> results.metadatas[1],
             distance |-> results.distances[k]]]
    ELSE <<>>

\* lines 119-128: the store's three lists zipped by position
FormatResults(results) ==
    IF results.documents # <<>>
    THEN [k \in 1..Len(results.documents) |->
            [content |-> results.documents[k],
             metadata |-> results.metadatas[k],
             distance |-> results.distances[k]]]
    ELSE <<>>

\* lines 111-131: the collection holds count > 0 records.  fail names the
\* collaborator call that raises: "none", "count", "embed", "query".
RetrieveNonEmpty(store, count, query, n_results, fail) ==
    LET t1 == <<Called("count", count, TRUE)>>
    IN IF fail = "embed"
       THEN [raised |-> TRUE, value |-> <<>>, results |-> NoResults,
             trace |-> Append(t1, Called("embed_text", 1, FALSE))]
       ELSE LET t2 == Append(t1, Called("embed_text", 1, TRUE))
                k == IF n_results <= count THEN n_results ELSE count
                res == IF fail = "query" THEN [ok |-> FALSE, results |-> NoResults]
                       ELSE CollectionQuery(store, embed_text(query), k)
                t3 == Append(t2, Called("query", k, res.ok))
            IN IF ~res.ok
               THEN [raised |-> TRUE, value |-> <<>>, results |-> NoResults, trace |-> t3]
               ELSE [raised |-> FALSE, value |-> FormatResults(res.results),
                     results |-> res.results, trace |-> t3]

\* the try body without the "count == 0" return of lines 107-109
RetrieveTry_no_empty_check(store, query, n_results, fail) ==
    IF fail = "count"
    THEN [raised |-> TRUE, value |-> <<>>, results |-> NoResults,
          trace |-> <<Called("count", 0, FALSE)>>]
    ELSE RetrieveNonEmpty(store, Len(store), query, n_results, fail)

\* lines 105-131, the body of the try
RetrieveTry(store, query, n_results, fail) ==
    IF fail = "count"
    THEN [raised |-> TRUE, value |-> <<>>, results |-> NoResults,
          trace |-> <<Called("count", 0, FALSE)>>]
    ELSE IF Len(store) = 0
    THEN [raised |-> FALSE, value |-> <<>>, results |-> NoResults,
          trace |-> <<Called("count", 0, TRUE)>>]
    ELSE RetrieveNonEmpty(store, Len(store), query, n_results, fail)

\* a retrieve whose handler logs and re-raises, as add_documents' does
retrieve_reraises(store, query, n_results, fail) ==
    LET r == RetrieveTry(store, query, n_results, fail)
    IN [outcome |-> IF r.raised THEN "raise" ELSE "return",
        value |-> r.value, results |-> r.results, trace |-> r.trace]

\* lines 104-135 of retrieve, the collection being set: the handler of line
\* 133 turns every exception of the body into the return value []
retrieve(store, query, n_results, fail) ==
    LET r == RetrieveTry(store, query, n_results, fail)
    IN [outcome |-> "return",
        value |-> IF r.raised THEN <<>> ELSE r.value,
        results |-> r.results, trace |-> r.trace]

\* -------------------------------------------------------------- LLMManager
\* dict.get(key, default)
Get(dict, key, default) == IF key \in DOMAIN dict THEN dict[key] ELSE default

\* A float score is an integer number of thousandths.  f"{x:.2f}" renders
\* it with two decimals: the whole part and the hundredths, rounded to the
\* nearest (a score whose third decimal is 5 rounds by its binary
\* expansion; the scores used here end in other digits).
Fmt2(x) ==
    LET hundredths == (x + 5) \div 10
    IN [whole |-> hundredths \div 100, decimals |-> hundredths % 100]

\* a whole number as a float score
Float(n) == 1000 * n

\* the string of line 117
NoInformation == "No relevant information found in the knowledge base."

\* A context string is the sentence it starts with followed by its
\* document blocks joined with "\n"; the empty string has neither.
EmptyString == [sentence |-> "", blocks |-> <<>>]

\* lines 121-127: f"Document {i} (Relevance: {similarity:.2f}, Source:
\* {source}):\n{content}\n" for the i-th document of the list
ContextBlock(i, doc) ==
    [number |-> i,
     relevance |-> Fmt2(Get(doc, "similarity", 0)),
     source |-> Get(Get(doc, "metadata", <<>>), "source", "Unknown"),
     content |-> doc.content]

\* lines 116-129 without the "if not documents" return: the join of no
\* blocks
_build_context_joins_nothing(documents) ==
    [sentence |-> "",
     blocks |-> [i \in 1..Len(documents) |-> ContextBlock(i, documents[i])]]

\* lines 116-129
_build_context(documents) ==
    IF documents = <<>> THEN [sentence |-> NoInformation, blocks |-> <<>>]
    ELSE [sentence |-> "",
          blocks |-> [i \in 1..Len(documents) |-> ContextBlock(i, documents[i])]]

\* the default system prompt of lines 143-152, by its first sentence
DefaultSystemPrompt ==
    "You are FIT-FLIX, an AI assistant specialized in fitness, wellness, and health."

\* no system_prompt argument (None and "" are both falsy)
NoSystemPrompt == ""

\* the f-string of lines 156-163 as the list of its pieces, in order: the
\* literal text between the placeholders is a label, "\n" a line break
PromptParts(system, context, query) ==
    <<[system |-> system], [label |-> "\n\nContext Information:\n"],
      [context |-> context], [label |-> "\n\nUser Question: "],
      [query |-> query], [label |-> "\n\nResponse:"]>>

\* lines 154-163 with the question section written before the context
\* section
_create_rag_prompt_question_first(query, context, system_prompt) ==
    LET system == IF system_prompt = NoSystemPrompt THEN DefaultSystemPrompt
                  ELSE system_prompt
    IN [system |-> system, context |-> context, query |-> query,
        parts |-> <<[system |-> system], [label |-> "\n\nUser Question: "],
                    [query |-> query], [label |-> "\n\nContext Information:\n"],
                    [context |-> context], [label |-> "\n\nResponse:"]>>]

\* lines 141-165: system prompt, context and question in one template;
\* parts is the string returned, piece by piece
_create_rag_prompt(query, context, system_prompt) ==
    LET system == IF system_prompt = NoSystemPrompt THEN DefaultSystemPrompt
                  ELSE system_prompt
    IN [system |-> system, context |-> context, query |-> query,
        parts |-> PromptParts(system, context, query)]

NoPrompt == [system |-> "", context |-> EmptyString, query |-> 0, parts |-> <<>>]

\* response.text of the hosted model for a prompt: a text that only the
\* model determines
Answer(prompt) == [answer_to |-> prompt]

NoAnswer == Answer(NoPrompt)

\* str.lower() on the letters the input lines and model names are written
\* with
LowerChar(c) ==
    CASE c = "Q" -> "q" [] c = "U" -> "u" [] c = "I" -> "i" [] c = "T" -> "t"
      [] c = "E" -> "e" [] c = "X" -> "x" [] c = "B" -> "b" [] c = "Y" -> "y"
      [] c = "G" -> "g" [] c = "P" -> "p" [] c = "M" -> "m" [] c = "N" -> "n"
      [] OTHER -> c

Lower(s) == [k \in 1..Len(s) |-> LowerChar(s[k])]

\* the one element of a one-element set
Only(S) == CHOOSE x \in S : TRUE

\* "gemini" and "gpt", the substrings initialize looks for
Gemini == <<"g", "e", "m", "i", "n", "i">>

Gpt == <<"g", "p", "t">>

\* sub in s
Contains(s, sub) ==
    \E i \in 0..(Len(s) - Len(sub)) : SubSeq(s, i + 1, i + Len(sub)) = sub

\* config.llm_model of config.py line 42, "gemini-1.5-flash", with the key
\* Config() requires (lines 37-39)
DefaultLLM ==
    [model_name |-> <<"g", "e", "m", "i", "n", "i", "-", "1", ".", "5", "-",
                      "f", "l", "a", "s", "h">>,
     google_api_key |-> TRUE]

\* lines 25-47 with self.model assigned before the client library is
\* configured, so that a failure there leaves the model set
initialize_assigns_first(self, model, fail) ==
    IF Contains(Lower(self.model_name), Gemini)
    THEN IF ~self.google_api_key
         THEN [outcome |-> "raise", error |-> "ValueError", model |-> model,
               trace |-> <<Called("initialize", 0, FALSE)>>]
         ELSE IF fail = "init"
         THEN [outcome |-> "raise", error |-> "Exception", model |-> TRUE,
               trace |-> <<Called("initialize", 0, FALSE)>>]
         ELSE [outcome |-> "return", error |-> "none", model |-> TRUE,
               trace |-> <<Called("initialize", 0, TRUE)>>]
    ELSE IF Contains(Lower(self.model_name), Gpt)
    THEN [outcome |-> "raise", error |-> "NotImplementedError", model |-> model,
          trace |-> <<Called("initialize", 0, FALSE)>>]
    ELSE [outcome |-> "raise", error |-> "ValueError", model |-> model,
          trace |-> <<Called("initialize", 0, FALSE)>>]

\* lines 25-53 of initialize: self is the manager's model_name and whether
\* its config holds an API key, model whether self.model is set; fail =
\* "init" makes the client library raise in lines 46-47, before self.model
\* is assigned.  [outcome, error, model, trace]
initialize(self, model, fail) ==
    IF Contains(Lower(self.model_name), Gemini)
    THEN IF ~self.google_api_key
         THEN [outcome |-> "raise", error |-> "ValueError", model |-> model,
               trace |-> <<Called("initialize", 0, FALSE)>>]
         ELSE IF fail = "init"
         THEN [outcome |-> "raise", error |-> "Exception", model |-> model,
               trace |-> <<Called("initialize", 0, FALSE)>>]
         ELSE [outcome |-> "return", error |-> "none", model |-> TRUE,
               trace |-> <<Called("initialize", 0, TRUE)>>]
    ELSE IF Contains(Lower(self.model_name), Gpt)
    THEN [outcome |-> "raise", error |-> "NotImplementedError", model |-> model,
          trace |-> <<Called("initialize", 0, FALSE)>>]
    ELSE [outcome |-> "raise", error |-> "ValueError", model |-> model,
          trace |-> <<Called("initialize", 0, FALSE)>>]

\* the try of lines 71-89 on a manager whose model is set: t1 is the calls
\* made before it; fail = "model" makes generate_content raise (lines
\* 94-101)
GenerateTry(self, query, context_documents, system_prompt, fail, t1) ==
    LET context == _build_context(context_documents)
        prompt == _create_rag_prompt(query, context, system_prompt)
    IN IF ~Contains(Lower(self.model_name), Gemini)
       THEN [outcome |-> "raise", error |-> "ValueError", value |-> NoAnswer,
             model |-> TRUE, prompt |-> prompt, trace |-> t1]
       ELSE IF fail = "model"
       THEN [outcome |-> "raise", error |-> "Exception", value |-> NoAnswer,
             model |-> TRUE, prompt |-> prompt,
             trace |-> Append(t1, Called("generate_content", 1, FALSE))]
       ELSE [outcome |-> "return", error |-> "none", value |-> Answer(prompt),
             model |-> TRUE, prompt |-> prompt,
             trace |-> Append(t1, Called("generate_content", 1, TRUE))]

\* lines 68-89 of generate_response: model says whether self.model is
\* set; fail names what raises: "none", "init" (the client library in
\* initialize), "model" (generate_content).
\* [outcome, error, value, model, prompt, trace]
generate_response(self, model, query, context_documents, system_prompt, fail) ==
    IF model
    THEN GenerateTry(self, query, context_documents, system_prompt, fail, <<>>)
    ELSE Only({IF i.outcome = "raise"
               THEN [outcome |-> "raise", error |-> i.error, value |-> NoAnswer,
                     model |-> i.model, prompt |-> NoPrompt, trace |-> i.trace]
               ELSE GenerateTry(self, query, context_documents, system_prompt, fail,
                                i.trace) :
               i \in {initialize(self, model, fail)}})

\* lines 225-230 of get_model_info
get_model_info(self, model) ==
    [model_name |-> self.model_name, initialized |-> model]

\* ---------------------------------------------------------- DocumentLoader
\* A directory is [exists, files]: files is its listing, in the order glob
\* yields it.  A file is [name, readable, content]: open or read raises
\* when it is not readable.  A raw content is [kind, text]: kind says what
\* cleaning leaves of it ("blank": whitespace only; "markup": only a
\* markdown code block, which _clean_markdown removes; "prose"), text
\* names the text.
Md == <<".", "m", "d">>

Txt == <<".", "t", "x", "t">>

EndsWith(s, suffix) ==
    Len(s) >= Len(suffix) /\ SubSeq(s, Len(s) - Len(suffix) + 1, Len(s)) = suffix

\* directory.glob("*" + suffix)
Glob(files, suffix) == SelectSeq(files, LAMBDA f : EndsWith(f.name, suffix))

\* the None of lines 75 and 193
NoneContent == [text |-> 0, cleaned |-> "None"]

\* the empty string as a cleaned content
EmptyContent == [text |-> 0, cleaned |-> ""]

\* lines 87-104: the cleaned text of a markdown content
_clean_markdown(content) ==
    IF content.kind \in {"blank", "markup"} THEN EmptyContent
    ELSE [text |-> content.text, cleaned |-> "markdown"]

\* lines 65-75
_load_markdown_file(file) ==
    IF ~file.readable THEN NoneContent ELSE _clean_markdown(file.content)

\* lines 181-193: strip and the collapse of blank lines
_load_text_file(file) ==
    IF ~file.readable THEN NoneContent
    ELSE IF file.content.kind = "blank" THEN EmptyContent
    ELSE [text |-> file.content.text, cleaned |-> "text"]

\* lines 115-136
_infer_category(filename) ==
    IF Contains(Lower(filename), <<"c", "l", "a", "s", "s">>)
        THEN "classes"
    ELSE IF Contains(Lower(filename), <<"t", "r", "a", "i", "n", "e", "r">>)
        THEN "trainers"
    ELSE IF Contains(Lower(filename), <<"n", "u", "t", "r", "i", "t", "i", "o", "n">>)
        THEN "nutrition"
    ELSE IF Contains(Lower(filename), <<"m", "e", "m", "b", "e", "r", "s", "h", "i", "p">>)
        THEN "membership"
    ELSE IF Contains(Lower(filename), <<"f", "a", "c", "i", "l", "i", "t">>)
        THEN "facilities"
    ELSE IF Contains(Lower(filename), <<"f", "a", "q">>)
        THEN "faq"
    ELSE IF Contains(Lower(filename), <<"c", "o", "m", "m", "u", "n", "i", "t", "y">>)
        THEN "community"
    ELSE IF Contains(Lower(filename), <<"c", "o", "n", "t", "a", "c", "t">>)
        THEN "contact"
    ELSE IF Contains(Lower(filename), <<"a", "b", "o", "u", "t">>)
        THEN "about"
    ELSE "general"

\* lines 38-46, 154-162: the document of a file
LoadedDoc(file, content, file_type) ==
    [content |-> content,
     metadata |-> [source |-> file.name, file_path |-> file.name,
                   file_type |-> file_type, category |-> _infer_category(file.name)]]

\* "if content": None and "" are falsy
Truthy(content) == content # NoneContent /\ content # EmptyContent

\* the documents of the files found, for those whose loaded content is
\* truthy (lines 35-47, 151-163)
DocsOf(found, contents, file_type) ==
    LET kept == SelectSeq([i \in 1..Len(found) |-> i], LAMBDA i : Truthy(contents[i]))
    IN [k \in 1..Len(kept) |-> LoadedDoc(found[kept[k]], contents[kept[k]], file_type)]

\* lines 31-54 without the try of _load_markdown_file: the first file
\* that cannot be read raises out of the loop
load_markdown_files_unguarded(directory, glob_fails) ==
    LET found == Glob(directory.files, Md)
        contents == [i \in 1..Len(found) |-> _load_markdown_file(found[i])]
    IN IF glob_fails \/ \E i \in 1..Len(found) : ~found[i].readable
       THEN [raised |-> TRUE, value |-> <<>>]
       ELSE [raised |-> FALSE, value |-> DocsOf(found, contents, "markdown")]

\* lines 31-54: glob_fails makes the listing raise.  [raised, value]
load_markdown_files(directory, glob_fails) ==
    LET found == Glob(directory.files, Md)
        contents == [i \in 1..Len(found) |-> _load_markdown_file(found[i])]
    IN IF glob_fails THEN [raised |-> TRUE, value |-> <<>>]
       ELSE [raised |-> FALSE, value |-> DocsOf(found, contents, "markdown")]

\* lines 147-170
load_text_files(directory, glob_fails) ==
    LET found == Glob(directory.files, Txt)
        contents == [i \in 1..Len(found) |-> _load_text_file(found[i])]
    IN IF glob_fails THEN [raised |-> TRUE, value |-> <<>>]
       ELSE [raised |-> FALSE, value |-> DocsOf(found, contents, "text")]

\* lines 204-230: fail names the listing that raises ("none", "md", "txt").
\* [outcome, value]
load_all_documents(directory, fail) ==
    IF ~directory.exists THEN [outcome |-> "return", value |-> <<>>]
    ELSE LET md_docs == load_markdown_files(directory, fail = "md")
             txt_docs == load_text_files(directory, fail = "txt")
         IN [outcome |-> "return",
             value |-> (IF md_docs.raised THEN <<>> ELSE md_docs.value)
                       \o (IF txt_docs.raised THEN <<>> ELSE txt_docs.value)]

\* a stats dictionary: its document_count and status entries
Stats(document_count, status) == [document_count |-> document_count, status |-> status]

\* the last operation was not get_retrieval_stats
NoStats == Stats(0, "none")

\* lines 143-155 with the "if not self.collection" return of lines 143-144
\* left out: the count is attempted on the unset collection inside the try
get_retrieval_stats_unguarded(collection, store, fail) ==
    IF ~collection \/ fail = "count"
    THEN [outcome |-> "return", value |-> Stats(0, "error"),
          trace |-> <<Called("count", 0, FALSE)>>]
    ELSE [outcome |-> "return", value |-> Stats(Len(store), "ready"),
          trace |-> <<Called("count", Len(store), TRUE)>>]

\* lines 143-155 of get_retrieval_stats: collection says whether
\* self.collection is set; fail = "count" makes collection.count() raise
get_retrieval_stats(collection, store, fail) ==
    IF ~collection
    THEN [outcome |-> "return", value |-> Stats(0, "not_initialized"), trace |-> <<>>]
    ELSE IF fail = "count"
    THEN [outcome |-> "return", value |-> Stats(0, "error"),
          trace |-> <<Called("count", 0, FALSE)>>]
    ELSE [outcome |-> "return", value |-> Stats(Len(store), "ready"),
          trace |-> <<Called("count", Len(store), TRUE)>>]

\* ------------------------------------------------------------ front ends
\* ['quit', 'exit', 'bye']
QuitWords == {<<"q", "u", "i", "t">>, <<"e", "x", "i", "t">>, <<"b", "y", "e">>}

\* the number the retriever's collaborators know a question's text by
TextNumber(text) == Len(text) % NumContents

\* the default of retrieve's n_results parameter
DefaultNResults == 5

\* delete_collection(), lines 157-164: without a client nothing is done;
\* with one, client.delete_collection may raise (fail = TRUE), as it does
\* when the database holds no such collection, and the exception is logged
\* and dropped.  The record tells whether the deletion was attempted and
\* whether the collection is gone after it
delete_collection(client, exists, fail) ==
    IF ~client THEN [attempted |-> FALSE, removed |-> FALSE]
    ELSE [attempted |-> TRUE, removed |-> exists /\ ~fail]

\* reset_collection(), lines 166-174: delete_collection(), then
\* initialize(), whose exception propagates (fail as in Initialize)
reset_collection(client, exists, del_fails, fail) ==
    LET d == delete_collection(client, exists, del_fails)
    IN [removed |-> d.removed,
        trace |-> IF d.attempted THEN <<Called("delete_collection", 0, d.removed)>>
                  ELSE <<>>,
        client |-> client \/ fail # "client",
        created |-> fail = "none",
        outcome |-> IF fail = "none" THEN "return" ELSE "raise"]

\* retriever.retrieve(question) on a retriever whose collection may be
\* unset: lines 101-102 raise RuntimeError before the try
RetrieveCall(collection, store, question, fail) ==
    IF ~collection
    THEN [called |-> TRUE, outcome |-> "raise", value |-> <<>>, results |-> NoResults,
          trace |-> <<>>, query |-> TextNumber(question)]
    ELSE LET r == retrieve(store, TextNumber(question), DefaultNResults, fail)
         IN [called |-> TRUE, outcome |-> r.outcome, value |-> r.value,
             results |-> r.results, trace |-> r.trace, query |-> TextNumber(question)]

NoRetrieveCall ==
    [called |-> FALSE, outcome |-> "none", value |-> <<>>, results |-> NoResults,
     trace |-> <<>>, query |-> 0]

\* llm_manager.generate_response(question, documents) as a front end calls it
GenerateCall(model, question, documents, fail) ==
    LET g == generate_response(DefaultLLM, model, TextNumber(question), documents,
                               NoSystemPrompt, fail)
    IN [called |-> TRUE, query |-> TextNumber(question), documents |-> documents,
        system_prompt |-> NoSystemPrompt, outcome |-> g.outcome, error |-> g.error,
        value |-> g.value, prompt |-> g.prompt, trace |-> g.trace]

NoGenerateCall ==
    [called |-> FALSE, query |-> 0, documents |-> <<>>,
     system_prompt |-> NoSystemPrompt, outcome |-> "none", error |-> "none",
     value |-> NoAnswer, prompt |-> NoPrompt, trace |-> <<>>]

\* a turn that calls neither the retriever nor the generator and shows
\* display
NoAnswering(display, model) ==
    [calls |-> <<>>, display |-> display, answer |-> NoAnswer,
     retr |-> NoRetrieveCall, gen |-> NoGenerateCall, model |-> model]

\* The try body the three front ends share: retrieve, then generate_response
\* with what retrieve returned, then show the answer; an exception of
\* either call is caught by the front end's handler, which shows the
\* error.  has_retriever is false when the front end holds None for the
\* retriever (the attribute access raises); substitutes says whether the
\* front end answers an empty result itself (gradio_app.py lines 110-113).
\* r is what retrieve did and g what generate_response does with r.value.
Answered(has_retriever, model, r, g, substitutes) ==
    IF ~has_retriever THEN NoAnswering("error", model)
    ELSE IF r.outcome = "raise"
    THEN [calls |-> <<"retrieve">>, display |-> "error", answer |-> NoAnswer,
          retr |-> r, gen |-> NoGenerateCall, model |-> model]
    ELSE IF substitutes /\ r.value = <<>>
    THEN [calls |-> <<"retrieve">>, display |-> "substitute", answer |-> NoAnswer,
          retr |-> r, gen |-> NoGenerateCall, model |-> model]
    ELSE IF g.outcome = "raise"
    THEN [calls |-> <<"retrieve", "generate_response">>, display |-> "error",
          answer |-> NoAnswer, retr |-> r, gen |-> g,
          model |-> (model \/ g.trace[1].ok)]
    ELSE [calls |-> <<"retrieve", "generate_response">>, display |-> "answer",
          answer |-> g.value, retr |-> r, gen |-> g, model |-> TRUE]

\* retrieve(question) and generate_response(question, its result), each
\* evaluated once, and what the front end makes of them
AnswerQuestion(has_retriever, collection, store, model, question, rfail, gfail, substitutes) ==
    Only(UNION {{Answered(has_retriever, model, r, g, substitutes) :
                    g \in {GenerateCall(model, question, r.value, gfail)}} :
                 r \in {RetrieveCall(collection, store, question, rfail)}})

\* the loop body with the quit words compared without lower()
CliTurn_case_sensitive(collection, store, model, input, rfail, gfail) ==
    IF input.kind = "interrupt"
    THEN [session |-> "ended", a |-> NoAnswering("goodbye", model)]
    ELSE IF input.kind = "eof"
    THEN [session |-> "ready", a |-> NoAnswering("error", model)]
    ELSE LET question == Strip(input.line)
         IN IF question \in QuitWords
            THEN [session |-> "ended", a |-> NoAnswering("goodbye", model)]
            ELSE IF question = <<>>
            THEN [session |-> "ready", a |-> NoAnswering("none", model)]
            ELSE [session |-> "ready",
                  a |-> AnswerQuestion(TRUE, collection, store, model, question,
                                       rfail, gfail, FALSE)]

\* src/app.py lines 50-76, one pass of the loop.  input is what input()
\* does: returns a line, or raises KeyboardInterrupt or EOFError (an
\* Exception, handled by line 74).  [session, a]
CliTurn(collection, store, model, input, rfail, gfail) ==
    IF input.kind = "interrupt"
    THEN [session |-> "ended", a |-> NoAnswering("goodbye", model)]
    ELSE IF input.kind = "eof"
    THEN [session |-> "ready", a |-> NoAnswering("error", model)]
    ELSE LET question == Strip(input.line)
         IN IF Lower(question) \in QuitWords
            THEN [session |-> "ended", a |-> NoAnswering("goodbye", model)]
            ELSE IF question = <<>>
            THEN [session |-> "ready", a |-> NoAnswering("none", model)]
            ELSE [session |-> "ready",
                  a |-> AnswerQuestion(TRUE, collection, store, model, question,
                                       rfail, gfail, FALSE)]

\* streamlit_app.py lines 200-221, process_question; the session is
\* "ready" when st.session_state.retriever is set
StreamlitTurn(session, collection, store, model, question, rfail, gfail) ==
    IF Strip(question) = <<>> THEN NoAnswering("warning", model)
    ELSE AnswerQuestion(session = "ready", collection, store, model, question,
                        rfail, gfail, FALSE)

\* ids of streamlit_app.py line 91
ChunkIds(n) == [k \in 1..n |-> <<"chunk", k - 1>>]

\* initialize_system of the two web front ends (gradio_app.py lines 39-80,
\* streamlit_app.py lines 52-104) over the persisted store.  env says what
\* the collaborators do: init ("none", "client", "collection": what raises
\* in retriever.initialize), count_fails, and add (the env of
\* add_documents); documents and metadata are the chunks the knowledge
\* base gives.  [success, client, collection, store]
WebInitialize(store, env, documents, metadata, with_ids) ==
    IF env.init # "none"
    THEN [success |-> FALSE, client |-> env.init # "client", collection |-> FALSE,
          store |-> store]
    ELSE LET stats == get_retrieval_stats(TRUE, store,
                                          IF env.count_fails THEN "count" ELSE "none")
         IN IF stats.value.document_count # 0
            THEN [success |-> TRUE, client |-> TRUE, collection |-> TRUE, store |-> store]
            ELSE IF documents = <<>>
            THEN [success |-> FALSE, client |-> TRUE, collection |-> TRUE, store |-> store]
            ELSE LET r == add_documents(store, documents, metadata,
                                        IF with_ids THEN ChunkIds(Len(documents))
                                        ELSE <<>>,
                                        env.add)
                 IN [success |-> r.ok, client |-> TRUE, collection |-> TRUE,
                     store |-> r.store]

\* gradio_app.py lines 92-134, chat_with_rag: the system is initialized
\* on the first message (the session is "ready" when is_initialized is
\* set).  [session, client, collection, store, a]
GradioTurn(session, client, collection, store, model, message, env, documents, metadata, rfail, gfail) ==
    IF Strip(message) = <<>>
    THEN [session |-> session, client |-> client, collection |-> collection,
          store |-> store, a |-> NoAnswering("none", model)]
    ELSE IF session = "ready"
    THEN [session |-> session, client |-> client, collection |-> collection,
          store |-> store,
          a |-> AnswerQuestion(TRUE, collection, store, model, message, rfail, gfail, TRUE)]
    ELSE Only({IF ~i.success
               THEN [session |-> "new", client |-> i.client,
                     collection |-> i.collection, store |-> i.store,
                     a |-> NoAnswering("init_message", model)]
               ELSE [session |-> "ready", client |-> i.client,
                     collection |-> i.collection, store |-> i.store,
                     a |-> AnswerQuestion(TRUE, i.collection, i.store, model, message,
                                          rfail, gfail, TRUE)] :
               i \in {WebInitialize(store, env, documents, metadata, FALSE)}})

\* ------------------------------------------------------------------ state
VARIABLES
    splitter,       \* the TextSplitter object: its chunk_size and chunk_overlap
    call,           \* the arguments of the split_text call
    pc,             \* "call" before split_text has run, "done" after it returned
    chunks,         \* the list split_text returned
    frame,          \* the loops of a split_text call that runs step by step
    client,         \* DocumentRetriever.client is set
    collection,     \* DocumentRetriever.collection is set
    deleted,        \* DocumentRetriever.collection names a collection that
                    \* delete_collection has removed from the database
    store,          \* the records of the persisted collection, in insertion order
    op,             \* the last retriever operation: its name, arguments, outcome
    trace,          \* the collaborator calls that operation made, in order
    results,        \* what the store answered to that operation's query
    added,          \* since the last reset: the documents passed to add_documents
                    \* calls that returned, by kind of ids (generated / supplied),
                    \* and the calls that raised on a set collection
    nadds,          \* add_documents calls made
    stats,          \* what the last operation returned, when it was
                    \* get_retrieval_stats
    docs,           \* the batch of documents passed to split_documents
    chunked_documents,  \* the list split_documents returned
    knowledge_base, \* the directory load_all_documents reads
    loaded,         \* what load_all_documents did: the listing that failed,
                    \* its outcome and the list it returned
    model,          \* LLMManager.model is set
    gen,            \* the last generate_response call: its arguments, the
                    \* prompt it built, its outcome and the calls it made
    llm,            \* the LLMManager's model_name and whether its config holds
                    \* an API key
    llmop,          \* the last LLMManager operation: its name, whether the
                    \* model was set before it, its outcome, exception and
                    \* calls, and what get_model_info reported after it
    frontend,       \* the front end that runs: "cli", "streamlit", "gradio"
    session,        \* "new", "ready" (the turn loop runs), "failed", "ended"
    turn            \* the last turn: its input, the components it called in
                    \* order, what it displayed, the failures injected, and
                    \* the number of chunks the knowledge base held when the
                    \* turn ran initialize_system (None when it did not)

splitVars == <<splitter, call, pc, chunks, frame>>

retrVars == <<client, collection, deleted, store, op, trace, results, added, nadds, stats>>

docVars == <<docs, chunked_documents, knowledge_base, loaded>>

llmVars == <<model, gen, llm, llmop>>

appVars == <<frontend, session, turn>>

vars == <<splitVars, retrVars, docVars, llmVars, appVars>>

RECURSIVE TextsOfLen(_)
TextsOfLen(n) ==
    IF n = 0 THEN {<<>>}
    ELSE {Append(t, c) : t \in TextsOfLen(n - 1), c \in Chars}

Texts == UNION {TextsOfLen(n) : n \in 0..MaxLen}

ChunkSizeArgs == {None} \cup (1..MaxChunk)

ChunkOverlapArgs == {None} \cup (0..MaxChunk)

NoOp == [name |-> "none", outcome |-> "none", value |-> <<>>,
         documents |-> <<>>, ids |-> <<>>, query |-> 0, n_results |-> 0, count |-> 0]

NoDirectory == [exists |-> FALSE, files |-> <<>>]

NoLoad == [fail |-> "none", outcome |-> "none", value |-> <<>>]

\* no load_all_documents call is made
NotLoading == knowledge_base = NoDirectory /\ loaded = NoLoad

\* no split_documents or load_all_documents call is made
NoDocuments == docs = <<>> /\ chunked_documents = <<>> /\ NotLoading

NoGen == [called |-> FALSE, query |-> 0, documents |-> <<>>,
          system_prompt |-> NoSystemPrompt, outcome |-> "none", error |-> "none",
          value |-> NoAnswer, prompt |-> NoPrompt, trace |-> <<>>]

\* LLMManager.__init__ (line 22), no generate_response call made
NoInfo == [model_name |-> <<>>, initialized |-> FALSE]

NoLLMOp == [name |-> "none", had_model |-> FALSE, outcome |-> "none",
            error |-> "none", trace |-> <<>>, info |-> NoInfo]

\* what a generate_response or initialize call r did on a manager whose
\* model was set or not
LLMOp(name, had_model, r) ==
    [name |-> name, had_model |-> had_model, outcome |-> r.outcome,
     error |-> r.error, trace |-> r.trace, info |-> NoInfo]

LLMInit == model = FALSE /\ gen = NoGen /\ llm = DefaultLLM /\ llmop = NoLLMOp

NoTurn == [input |-> [kind |-> "none", line |-> <<>>], calls |-> <<>>,
           display |-> "none", answer |-> NoAnswer, rfail |-> "none", gfail |-> "none",
           kb |-> None]

\* no front end runs
NoApp == frontend = "none" /\ session = "off" /\ turn = NoTurn

\* DocumentRetriever.__init__ over a fresh database directory
RetrieverInit ==
    /\ client = FALSE
    /\ collection = FALSE
    /\ deleted = FALSE
    /\ store = <<>>
    /\ op = NoOp
    /\ trace = <<>>
    /\ results = NoResults
    /\ added = [generated |-> 0, supplied |-> 0, raised |-> 0]
    /\ nadds = 0
    /\ stats = NoStats

InitSplit ==
    /\ splitter = TextSplitterInit
    /\ call \in [text : Texts, chunk_size : ChunkSizeArgs, chunk_overlap : ChunkOverlapArgs]
    /\ pc = "call"
    /\ chunks = <<>>
    /\ frame = NoFrame
    /\ RetrieverInit
    /\ NoDocuments
    /\ LLMInit
    /\ NoApp

SplitText ==
    /\ pc = "call"
    /\ chunks' = split_text(splitter, call.text, call.chunk_size, call.chunk_overlap)
    /\ pc' = "done"
    /\ UNCHANGED <<splitter, call, frame>>
    /\ UNCHANGED retrVars
    /\ UNCHANGED docVars
    /\ UNCHANGED llmVars
    /\ UNCHANGED appVars

NextSplit == SplitText

SpecSplit == InitSplit /\ [][NextSplit]_vars

\* ------------------------------------------- split_text calls, by steps
\* The same call with every pass of its two loops a step of its own.  The
\* splitter is the default one or one configured without overlap; the
\* chunk_overlap passed may be as large as chunk_size or larger.
StepSplitters == {TextSplitterInit, [chunk_size |-> 2, chunk_overlap |-> 0]}

StepTexts == UNION {TextsOfLen(n) : n \in 0..MaxStepLen}

InitSteps ==
    /\ splitter \in StepSplitters
    /\ call \in [text : StepTexts, chunk_size : ChunkSizeArgs,
                  chunk_overlap : ChunkOverlapArgs]
    /\ pc = "enter"
    /\ chunks = <<>>
    /\ frame = NoFrame
    /\ RetrieverInit
    /\ NoDocuments
    /\ LLMInit
    /\ NoApp

OthersUnchanged ==
    /\ UNCHANGED retrVars
    /\ UNCHANGED docVars
    /\ UNCHANGED llmVars
    /\ UNCHANGED appVars

\* lines 70-80: a short text is returned at once
EnterSplit ==
    /\ pc = "enter"
    /\ IF Len(call.text) <= EffectiveChunkSize(splitter, call.chunk_size)
       THEN /\ chunks' = <<call.text>>
            /\ pc' = "returned"
            /\ UNCHANGED frame
       ELSE /\ frame' = EnterSentences(call.text)
            /\ pc' = "sentence_loop"
            /\ UNCHANGED chunks
    /\ UNCHANGED <<splitter, call>>
    /\ OthersUnchanged

SentenceLoopPass ==
    /\ pc = "sentence_loop"
    /\ frame.i <= Len(frame.sentences)
    /\ \E r \in {SentencePass(frame, EffectiveChunkSize(splitter, call.chunk_size),
                               EffectiveChunkOverlap(splitter, call.chunk_overlap))} :
          /\ pc' = r.pc
          /\ frame' = r.frame
    /\ UNCHANGED <<splitter, call, chunks>>
    /\ OthersUnchanged

WordLoopPass ==
    /\ pc = "word_loop"
    /\ frame.j <= Len(frame.words)
    /\ frame' = WordPass(frame, EffectiveChunkSize(splitter, call.chunk_size),
                         EffectiveChunkOverlap(splitter, call.chunk_overlap))
    /\ UNCHANGED <<splitter, call, pc, chunks>>
    /\ OthersUnchanged

WordLoopReturn ==
    /\ pc = "word_loop"
    /\ frame.j > Len(frame.words)
    /\ frame' = WordReturn(frame)
    /\ pc' = "sentence_loop"
    /\ UNCHANGED <<splitter, call, chunks>>
    /\ OthersUnchanged

SentenceLoopReturn ==
    /\ pc = "sentence_loop"
    /\ frame.i > Len(frame.sentences)
    /\ chunks' = SplitReturn(frame)
    /\ pc' = "returned"
    /\ UNCHANGED <<splitter, call, frame>>
    /\ OthersUnchanged

NextSteps ==
    EnterSplit \/ SentenceLoopPass \/ WordLoopPass \/ WordLoopReturn
        \/ SentenceLoopReturn

\* a call that has started keeps running: the interpreter takes the next
\* step whenever there is one
SpecSteps == InitSteps /\ [][NextSteps]_vars /\ WF_vars(NextSteps)

\* ------------------------------------------------ split_documents calls
\* the splitter is built from a config object whose chunk_size and
\* chunk_overlap attributes the caller has set (lines 18-20)
SplitterConfigs == [chunk_size : {2, 3}, chunk_overlap : {1}]

DocTexts == {<<>>, <<"a", " ", "a">>, <<"a", ".", " ", "a", ".">>,
             <<"a", "a", "a", "a">>}

DocMetadata == {[source |-> "s1", category |-> "c1"],
                [source |-> "s2", category |-> "c2", chunk_id |-> 7]}

WellFormedDocs == [content : DocTexts, metadata : DocMetadata]

\* documents lacking the content key, lacking the metadata key, or holding
\* None as metadata
MalformedDocs == {[metadata |-> [source |-> "s1", category |-> "c1"]],
                  [content |-> <<"a", " ", "a">>],
                  [content |-> <<"a", " ", "a">>, metadata |-> NoneMetadata]}

DocumentBatches ==
    UNION {[1..n -> WellFormedDocs \cup MalformedDocs] : n \in 0..MaxBatch}

InitDocs ==
    /\ splitter \in SplitterConfigs
    /\ call = [text |-> <<>>, chunk_size |-> None, chunk_overlap |-> None]
    /\ pc = "call_docs"
    /\ chunks = <<>>
    /\ frame = NoFrame
    /\ RetrieverInit
    /\ docs \in DocumentBatches
    /\ chunked_documents = <<>>
    /\ NotLoading
    /\ LLMInit
    /\ NoApp

SplitDocuments ==
    /\ pc = "call_docs"
    /\ LET r == split_documents(splitter, docs)
       IN /\ pc' = IF r.raised THEN "docs_raised" ELSE "docs_returned"
          /\ chunked_documents' = r.value
    /\ UNCHANGED <<splitter, call, chunks, frame, docs, knowledge_base, loaded>>
    /\ UNCHANGED retrVars
    /\ UNCHANGED llmVars
    /\ UNCHANGED appVars

NextDocs == SplitDocuments

SpecDocs == InitDocs /\ [][NextDocs]_vars

\* ---------------------------------------------- load_all_documents calls
\* the name of the file at position i of a listing, without its suffix
StemAt(i) == IF i = 1 THEN <<"f", "a", "q">> ELSE [k \in 1..i |-> "n"]

\* the files a listing can hold at position i: markdown or text, readable
\* with a blank, markup-only or prose content, or not readable
FilesAt(i) ==
    {[name |-> StemAt(i) \o suffix, readable |-> TRUE,
      content |-> [kind |-> kind, text |-> i]] :
        suffix \in {Md, Txt}, kind \in {"blank", "markup", "prose"}}
    \cup {[name |-> StemAt(i) \o suffix, readable |-> FALSE,
           content |-> [kind |-> "prose", text |-> i]] : suffix \in {Md, Txt}}

RECURSIVE Listings(_)
Listings(n) ==
    IF n = 0 THEN {<<>>}
    ELSE {Append(l, f) : l \in Listings(n - 1), f \in FilesAt(n)}

Directories ==
    {NoDirectory}
    \cup {[exists |-> TRUE, files |-> l] : l \in UNION {Listings(n) : n \in 0..MaxFiles}}

InitLoad ==
    /\ splitter = TextSplitterInit
    /\ call = [text |-> <<>>, chunk_size |-> None, chunk_overlap |-> None]
    /\ pc = "load"
    /\ chunks = <<>>
    /\ frame = NoFrame
    /\ RetrieverInit
    /\ docs = <<>>
    /\ chunked_documents = <<>>
    /\ knowledge_base \in Directories
    /\ loaded = NoLoad
    /\ LLMInit
    /\ NoApp

\* one load_all_documents call
LoadAllDocuments ==
    /\ pc = "load"
    /\ \E fail \in {"none", "md", "txt"} :
          LET r == load_all_documents(knowledge_base, fail)
          IN loaded' = [fail |-> fail, outcome |-> r.outcome, value |-> r.value]
    /\ pc' = "loaded"
    /\ UNCHANGED <<splitter, call, chunks, frame>>
    /\ UNCHANGED <<docs, chunked_documents, knowledge_base>>
    /\ UNCHANGED retrVars
    /\ UNCHANGED llmVars
    /\ UNCHANGED appVars

NextLoad == LoadAllDocuments

SpecLoad == InitLoad /\ [][NextLoad]_vars

\* ---------------------------------------------- generate_response calls
\* result records written by a caller, as those of test_context_building:
\* with a similarity score, and one without metadata or score
ContextDocs ==
    {[content |-> 1, metadata |-> [source |-> "cardio.md", category |-> "cardio"],
      similarity |-> 850],
     [content |-> 2, metadata |-> [source |-> "strength.md", category |-> "strength"],
      similarity |-> 784],
     [content |-> 3, metadata |-> [category |-> "yoga"], similarity |-> 126],
     [content |-> 4]}

ContextDocLists == UNION {[1..n -> ContextDocs] : n \in 0..MaxResults}

\* a collection filled by one add_documents call of MaxN documents
FilledStore ==
    add_documents(<<>>, [k \in 1..MaxN |-> k], [k \in 1..MaxN |-> [source |-> k]], <<>>,
                  [embed_fails |-> FALSE, add_fails_at |-> 0,
                   on_existing |-> "ignore"]).store

\* what retrieve returns over that collection
RetrievedLists ==
    {retrieve(FilledStore, query, n_results, "none").value :
        query \in Queries, n_results \in 1..MaxN}

SystemPrompts == {NoSystemPrompt, "You are a test assistant."}

\* the model names of the tests (gemini-pro capitalised, gpt-4 for
\* gpt-3.5-turbo, unsupported-model) and one holding both substrings
ModelNames ==
    {<<"G", "e", "m", "i", "n", "i", "-", "P", "r", "o">>,
     <<"g", "p", "t", "-", "4">>,
     <<"u", "n", "s", "u", "p", "p", "o", "r", "t", "e", "d">>,
     <<"g", "p", "t", "-", "g", "e", "m", "i", "n", "i">>}

LLMConfigs == [model_name : ModelNames, google_api_key : BOOLEAN]

InitLLM ==
    /\ splitter = TextSplitterInit
    /\ call = [text |-> <<>>, chunk_size |-> None, chunk_overlap |-> None]
    /\ pc = "llm"
    /\ chunks = <<>>
    /\ frame = NoFrame
    /\ RetrieverInit
    /\ NoDocuments
    /\ model = FALSE
    /\ gen = NoGen
    /\ llm \in LLMConfigs
    /\ llmop = NoLLMOp
    /\ NoApp

\* one initialize call on the LLMManager
InitializeLLM ==
    \E fail \in {"none", "init"} :
        LET r == initialize(llm, model, fail)
        IN /\ pc = "llm"
           /\ model' = r.model
           /\ gen' = NoGen
           /\ llmop' = LLMOp("initialize", model, r)
           /\ UNCHANGED llm
           /\ UNCHANGED splitVars
           /\ UNCHANGED retrVars
           /\ UNCHANGED docVars
           /\ UNCHANGED appVars

\* one generate_response call on the LLMManager.  A call leaves nothing
\* in the manager but its model, which initialize sets the same way, so
\* the calls are taken from the states __init__ and initialize leave.
GenerateResponse ==
    /\ pc = "llm"
    /\ ~gen.called
    /\ \E query \in Queries, context_documents \in ContextDocLists \cup RetrievedLists,
          system_prompt \in SystemPrompts, fail \in {"none", "init", "model"} :
           \E r \in {generate_response(llm, model, query, context_documents,
                                       system_prompt, fail)} :
              /\ model' = r.model
              /\ gen' = [called |-> TRUE, query |-> query,
                         documents |-> context_documents,
                         system_prompt |-> system_prompt, outcome |-> r.outcome,
                         error |-> r.error, value |-> r.value, prompt |-> r.prompt,
                         trace |-> r.trace]
              /\ llmop' = LLMOp("generate_response", model, r)
    /\ UNCHANGED llm
    /\ UNCHANGED splitVars
    /\ UNCHANGED retrVars
    /\ UNCHANGED docVars
    /\ UNCHANGED appVars

\* one get_model_info call on the LLMManager
GetModelInfo ==
    /\ pc = "llm"
    /\ llmop' = [llmop EXCEPT !.info = get_model_info(llm, model)]
    /\ UNCHANGED <<model, gen, llm>>
    /\ UNCHANGED splitVars
    /\ UNCHANGED retrVars
    /\ UNCHANGED docVars
    /\ UNCHANGED appVars

NextLLM == InitializeLLM \/ GenerateResponse \/ GetModelInfo

SpecLLM == InitLLM /\ [][NextLLM]_vars

\* ---------------------------------------------- the retriever's operations
\* the documents, metadata and ids a caller passes to add_documents
DocumentsArg(n, seed) == [k \in 1..n |-> (seed + k) % NumContents]

MetadataArg(n, seed) == [k \in 1..n |-> [source |-> seed, chunk_id |-> k - 1]]

SuppliedIds(n, first) == [k \in 1..n |-> <<"id", first + k - 1>>]

\* the calls made: [n documents, seed of their texts, first supplied id or
\* None for no ids]
AddCalls ==
    {[n |-> 2, seed |-> 0, first |-> None],
     [n |-> 2, seed |-> 1, first |-> None],
     [n |-> 2, seed |-> 0, first |-> 0],
     [n |-> 2, seed |-> 1, first |-> 1],
     [n |-> MaxDocs, seed |-> 0, first |-> None],
     [n |-> MaxDocs, seed |-> 1, first |-> 0]}

IdsArg(c) == IF c.first = None THEN <<>> ELSE SuppliedIds(c.n, c.first)

AddEnvs ==
    {[embed_fails |-> FALSE, add_fails_at |-> 0, on_existing |-> "ignore"],
     [embed_fails |-> FALSE, add_fails_at |-> 0, on_existing |-> "raise"],
     [embed_fails |-> TRUE, add_fails_at |-> 0, on_existing |-> "ignore"],
     [embed_fails |-> FALSE, add_fails_at |-> 1, on_existing |-> "ignore"],
     [embed_fails |-> FALSE, add_fails_at |-> 2, on_existing |-> "ignore"]}

Init ==
    /\ splitter = TextSplitterInit
    /\ call = [text |-> <<>>, chunk_size |-> None, chunk_overlap |-> None]
    /\ pc = "idle"
    /\ chunks = <<>>
    /\ frame = NoFrame
    /\ RetrieverInit
    /\ NoDocuments
    /\ LLMInit
    /\ NoApp

\* initialize(): PersistentClient, then get_or_create_collection; either
\* may raise (fail = "client", "collection"), and the exception propagates.
\* get_or_create_collection loads the collection the database holds, or
\* creates an empty one when it holds none
Initialize ==
    \E fail \in {"none", "client", "collection"} :
        /\ client' = (client \/ fail # "client")
        /\ collection' = (collection \/ fail = "none")
        /\ deleted' = (deleted /\ fail # "none")
        /\ op' = [NoOp EXCEPT !.name = "initialize",
                              !.outcome = IF fail = "none" THEN "return" ELSE "raise"]
        /\ trace' = <<>>
        /\ results' = NoResults
        /\ stats' = NoStats
        /\ UNCHANGED <<store, added, nadds>>
        /\ UNCHANGED splitVars
        /\ UNCHANGED docVars
        /\ UNCHANGED llmVars
        /\ UNCHANGED appVars

AddDocuments ==
    \E c \in AddCalls, env \in AddEnvs :
        LET documents == DocumentsArg(c.n, c.seed)
            ids == IdsArg(c)
            r == add_documents(store, documents, MetadataArg(c.n, c.seed), ids, env)
        IN /\ nadds < MaxAdds
           /\ Len(store) + c.n <= MaxStore
           /\ deleted => (env.embed_fails \/ env.add_fails_at = 1)
           /\ nadds' = nadds + 1
           /\ results' = NoResults
           /\ IF ~collection
              THEN /\ op' = [NoOp EXCEPT !.name = "add_documents", !.outcome = "raise",
                                         !.documents = documents, !.ids = ids]
                   /\ trace' = <<>>
                   /\ UNCHANGED <<store, added>>
              ELSE /\ op' = [NoOp EXCEPT !.name = "add_documents",
                                         !.outcome = IF r.ok THEN "return" ELSE "raise",
                                         !.documents = documents, !.ids = ids,
                                         !.count = Len(store)]
                   /\ trace' = r.trace
                   /\ store' = r.store
                   /\ added' = IF ~r.ok THEN [added EXCEPT !.raised = @ + 1]
                               ELSE IF ids = <<>>
                               THEN [added EXCEPT !.generated = @ + Len(documents)]
                               ELSE [added EXCEPT !.supplied = @ + Len(documents)]
           /\ stats' = NoStats
           /\ UNCHANGED <<client, collection, deleted>>
           /\ UNCHANGED splitVars
           /\ UNCHANGED docVars
           /\ UNCHANGED llmVars
           /\ UNCHANGED appVars

Retrieve ==
    \E query \in Queries, n_results \in 0..MaxN,
       fail \in {"none", "count", "embed", "query"} :
        LET r == retrieve(store, query, n_results, fail)
        IN /\ deleted => fail = "count"
           /\ IF ~collection
              THEN /\ op' = [NoOp EXCEPT !.name = "retrieve", !.outcome = "raise",
                                         !.query = query, !.n_results = n_results]
                   /\ trace' = <<>>
                   /\ results' = NoResults
              ELSE /\ op' = [NoOp EXCEPT !.name = "retrieve", !.outcome = r.outcome,
                                         !.value = r.value, !.query = query,
                                         !.n_results = n_results, !.count = Len(store)]
                   /\ trace' = r.trace
                   /\ results' = r.results
           /\ stats' = NoStats
           /\ UNCHANGED <<client, collection, deleted, store, added, nadds>>
           /\ UNCHANGED splitVars
           /\ UNCHANGED docVars
           /\ UNCHANGED llmVars
           /\ UNCHANGED appVars

\* get_retrieval_stats(); the store's count may raise (fail = "count")
GetRetrievalStats ==
    \E fail \in {"none", "count"} :
        LET r == get_retrieval_stats(collection, store, fail)
        IN /\ deleted => fail = "count"
           /\ op' = [NoOp EXCEPT !.name = "get_retrieval_stats", !.outcome = r.outcome,
                                 !.count = Len(store)]
           /\ stats' = r.value
           /\ trace' = r.trace
           /\ results' = NoResults
           /\ UNCHANGED <<client, collection, deleted, store, added, nadds>>
           /\ UNCHANGED splitVars
           /\ UNCHANGED docVars
           /\ UNCHANGED llmVars
           /\ UNCHANGED appVars

\* the database holds the collection: unless the handle names a deleted
\* one, it does once initialize() has succeeded or records were persisted
CollectionExists == ~deleted /\ (collection \/ store # <<>>)

ResetCollection ==
    \E del_fails \in BOOLEAN, fail \in {"none", "client", "collection"} :
        \E r \in {reset_collection(client, CollectionExists, del_fails, fail)} :
           /\ client' = r.client
           /\ collection' = (collection \/ r.created)
           /\ deleted' = IF r.created THEN FALSE
                         ELSE deleted \/ (r.removed /\ collection)
           /\ store' = IF r.removed THEN <<>> ELSE store
           /\ added' = IF r.removed THEN [generated |-> 0, supplied |-> 0, raised |-> 0]
                       ELSE added
           /\ op' = [NoOp EXCEPT !.name = "reset_collection", !.outcome = r.outcome,
                                 !.count = Len(store)]
           /\ trace' = r.trace
           /\ results' = NoResults
           /\ stats' = NoStats
           /\ UNCHANGED nadds
           /\ UNCHANGED splitVars
           /\ UNCHANGED docVars
           /\ UNCHANGED llmVars
           /\ UNCHANGED appVars

\* DocumentRetriever.__init__, lines 14-24, in a later run of the program:
\* a new object with no client and no collection over the database
\* directory the earlier run persisted
NewRetriever ==
    /\ op.name # "__init__"
    /\ client' = FALSE
    /\ collection' = FALSE
    /\ deleted' = FALSE
    /\ op' = [NoOp EXCEPT !.name = "__init__", !.outcome = "return",
                          !.count = Len(store)]
    /\ trace' = <<>>
    /\ results' = NoResults
    /\ stats' = NoStats
    /\ UNCHANGED <<store, added, nadds>>
    /\ UNCHANGED splitVars
    /\ UNCHANGED docVars
    /\ UNCHANGED llmVars
    /\ UNCHANGED appVars

Next ==
    \/ Initialize
    \/ AddDocuments
    \/ Retrieve
    \/ GetRetrievalStats
    \/ ResetCollection
    \/ NewRetriever

Spec == Init /\ [][Next]_vars

\* ------------------------------------------------------ front-end sessions
FrontEnds == {"cli", "streamlit", "gradio"}

InputLines ==
    {<<>>, <<" ", " ">>,
     <<"q", "u", "i", "t">>, <<" ", "Q", "U", "I", "T", " ">>,
     <<"E", "x", "i", "t">>, <<"b", "y", "e">>,
     <<"a", " ", "a">>, <<" ", "a", ".">>, <<"q", "u", "i", "t", " ", "a">>}

\* what input() does
CliInputs ==
    {[kind |-> "line", line |-> l] : l \in InputLines}
        \cup {[kind |-> "interrupt", line |-> <<>>], [kind |-> "eof", line |-> <<>>]}

AddOk == [embed_fails |-> FALSE, add_fails_at |-> 0, on_existing |-> "ignore"]

\* what the collaborators of initialize_system do; kb is the number of
\* chunks the knowledge base gives
WebEnvOk == [init |-> "none", count_fails |-> FALSE, add |-> AddOk, kb |-> MaxN - 1]

WebEnvs ==
    {WebEnvOk,
     [WebEnvOk EXCEPT !.kb = 0],
     [WebEnvOk EXCEPT !.init = "client"],
     [WebEnvOk EXCEPT !.init = "collection"],
     [WebEnvOk EXCEPT !.count_fails = TRUE],
     [WebEnvOk EXCEPT !.add = [embed_fails |-> TRUE, add_fails_at |-> 0,
                               on_existing |-> "ignore"]],
     [WebEnvOk EXCEPT !.kb = MaxDocs],
     [WebEnvOk EXCEPT !.kb = MaxDocs,
                      !.add = [embed_fails |-> FALSE, add_fails_at |-> 2,
                               on_existing |-> "ignore"]]}

\* the messages typed into a web front end
WebLines == {<<>>, <<" ", " ">>, <<"a", " ", "a">>, <<" ", "a", ".">>}

RetrieveFails == {"none", "count", "embed", "query"}

GenerateFails == {"none", "init", "model"}

\* the collaborator call that fails in a turn, if any: [rfail, gfail]
TurnFails ==
    {[rfail |-> r, gfail |-> "none"] : r \in RetrieveFails}
        \cup {[rfail |-> "none", gfail |-> g] : g \in GenerateFails}

\* a front end is launched over a fresh database directory or over one an
\* earlier run has filled
InitApp ==
    /\ splitter = TextSplitterInit
    /\ call = [text |-> <<>>, chunk_size |-> None, chunk_overlap |-> None]
    /\ pc = "app"
    /\ chunks = <<>>
    /\ frame = NoFrame
    /\ client = FALSE
    /\ collection = FALSE
    /\ deleted = FALSE
    /\ store \in {<<>>, FilledStore}
    /\ op = NoOp
    /\ trace = <<>>
    /\ results = NoResults
    /\ added = [generated |-> 0, supplied |-> 0, raised |-> 0]
    /\ nadds = 0
    /\ stats = NoStats
    /\ NoDocuments
    /\ LLMInit
    /\ frontend \in FrontEnds
    /\ session = "new"
    /\ turn = NoTurn

\* what a turn leaves in the state: a is the record AnswerQuestion gives,
\* count the number of stored records when retrieve ran, kb the number of
\* chunks of the knowledge base when the turn initialized the system
ApplyTurn(a, input, rfail, gfail, count, kb) ==
    /\ turn' = [input |-> input, calls |-> a.calls, display |-> a.display,
                answer |-> a.answer, rfail |-> rfail, gfail |-> gfail, kb |-> kb]
    /\ op' = IF a.retr.called
             THEN [NoOp EXCEPT !.name = "retrieve", !.outcome = a.retr.outcome,
                               !.value = a.retr.value, !.query = a.retr.query,
                               !.n_results = DefaultNResults, !.count = count]
             ELSE NoOp
    /\ trace' = a.retr.trace
    /\ results' = a.retr.results
    /\ gen' = a.gen
    /\ model' = a.model
    /\ llmop' = IF a.gen.called THEN LLMOp("generate_response", model, a.gen) ELSE NoLLMOp
    /\ UNCHANGED llm
    /\ stats' = NoStats
    /\ UNCHANGED <<added, nadds, deleted>>
    /\ UNCHANGED splitVars
    /\ UNCHANGED docVars

\* src/app.py lines 17-47: initialize_system builds the components (Config()
\* raises without an API key, and main exits); retriever.initialize() is
\* not called
StartCli ==
    \E fail \in {"none", "config"} :
        /\ frontend = "cli"
        /\ session = "new"
        /\ session' = IF fail = "none" THEN "ready" ELSE "failed"
        /\ UNCHANGED <<frontend, turn>>
        /\ UNCHANGED splitVars
        /\ UNCHANGED retrVars
        /\ UNCHANGED docVars
        /\ UNCHANGED llmVars

\* src/app.py lines 49-76: one pass of the loop
CliLoopTurn ==
    \E input \in CliInputs, fail \in TurnFails :
        \E t \in {CliTurn(collection, store, model, input, fail.rfail, fail.gfail)} :
           /\ frontend = "cli"
           /\ session = "ready"
           /\ session' = t.session
           /\ ApplyTurn(t.a, input, fail.rfail, fail.gfail, Len(store), None)
           /\ UNCHANGED <<frontend, client, collection, store>>

\* streamlit_app.py lines 152-165: render_main_content runs the cached
\* initialize_system; on failure the retriever stays None
StartStreamlit ==
    \E env \in WebEnvs :
        \E i \in {WebInitialize(store, env, DocumentsArg(env.kb, 0),
                               MetadataArg(env.kb, 0), TRUE)} :
           /\ frontend = "streamlit"
           /\ session = "new"
           /\ session' = IF i.success THEN "ready" ELSE "failed"
           /\ client' = i.success
           /\ collection' = i.success
           /\ store' = i.store
           /\ UNCHANGED <<frontend, turn, deleted, op, trace, results, added, nadds, stats>>
           /\ UNCHANGED splitVars
           /\ UNCHANGED docVars
           /\ UNCHANGED llmVars

\* streamlit_app.py lines 138-140, 190-192: a question from the form or a
\* sample-question button of the sidebar, which is there whether or not the
\* initialization succeeded
StreamlitQuestion ==
    \E line \in WebLines, fail \in TurnFails :
        \E a \in {StreamlitTurn(session, collection, store, model, line,
                               fail.rfail, fail.gfail)} :
           /\ frontend = "streamlit"
           /\ session \in {"ready", "failed"}
           /\ ApplyTurn(a, [kind |-> "line", line |-> line], fail.rfail, fail.gfail,
                        Len(store), None)
           /\ UNCHANGED <<frontend, session, client, collection, store>>

\* gradio_app.py lines 82-134: one message of the chat; once initialized
\* it does not read the knowledge base again
GradioChat ==
    \E line \in WebLines,
       env \in IF session = "ready" THEN {WebEnvOk} ELSE WebEnvs,
       fail \in TurnFails :
        \E t \in {GradioTurn(session, client, collection, store, model, line, env,
                            DocumentsArg(env.kb, 0), MetadataArg(env.kb, 0),
                            fail.rfail, fail.gfail)} :
           /\ frontend = "gradio"
           /\ session \in {"new", "ready"}
           /\ session' = t.session
           /\ client' = t.client
           /\ collection' = t.collection
           /\ store' = t.store
           /\ ApplyTurn(t.a, [kind |-> "line", line |-> line], fail.rfail, fail.gfail,
                        Len(t.store),
                        IF session = "new" /\ Strip(line) # <<>> THEN env.kb ELSE None)
           /\ UNCHANGED frontend

NextApp == StartCli \/ CliLoopTurn \/ StartStreamlit \/ StreamlitQuestion \/ GradioChat

SpecApp == InitApp /\ [][NextApp]_vars

\* ------------------------------------ the command line on an input that ends
\* input() at the end of the input: EOFError, at this call and at every
\* later one
ExhaustedInput == [kind |-> "eof", line |-> <<>>]

InitCli == InitApp /\ frontend = "cli"

\* src/app.py lines 49-76: one pass of the loop over an input that ends;
\* once input() has met the end of the input no line is read and no key is
\* pressed any more
CliLoopTurnToEnd ==
    \E input \in IF turn.input.kind = "eof" THEN {ExhaustedInput} ELSE CliInputs,
       fail \in TurnFails :
        \E t \in {CliTurn(collection, store, model, input, fail.rfail, fail.gfail)} :
           /\ frontend = "cli"
           /\ session = "ready"
           /\ session' = t.session
           /\ ApplyTurn(t.a, input, fail.rfail, fail.gfail, Len(store), None)
           /\ UNCHANGED <<frontend, client, collection, store>>

NextCli == StartCli \/ CliLoopTurnToEnd

\* the interpreter keeps running the loop: a pass that can be made is made
SpecCli == InitCli /\ [][NextCli]_vars /\ WF_vars(NextCli)

\* ------------------------------------------------- claims on split_text
Min(a, b) == IF a <= b THEN a ELSE b

Done == pc = "done"

\* the chunk size of the call, when the caller passed one (> 0)
SizeGiven == call.chunk_size > 0

\* chunk_size > 0 and 0 < chunk_overlap < chunk_size, both passed by the
\* caller (a chunk_overlap of 0 is replaced by the configured default)
ProperArgs ==
    SizeGiven /\ call.chunk_overlap > 0 /\ call.chunk_overlap < call.chunk_size

\* some sentence of the text, as the loop measures it, is longer than
\* chunk_size; when none is, no word is either and the word path never runs
HasOversizedSentence ==
    \E i \in DOMAIN _split_by_sentences(call.text) :
        Len(_split_by_sentences(call.text)[i]) > call.chunk_size

\* C1: with chunk_size > 0 and 0 <= chunk_overlap < chunk_size, every chunk
\* split_text returns is at most chunk_size long, unless it comes from a
\* sentence or word that is itself longer than chunk_size.  Stated for the
\* texts that hold no oversized sentence, where the exception cannot apply,
\* and for an overlap the call really uses (chunk_overlap > 0).
C1_ChunksWithinSize ==
    (Done /\ ProperArgs /\ ~HasOversizedSentence)
        => \A i \in DOMAIN chunks : Len(chunks[i]) <= call.chunk_size

IsPrefixOf(p, s) == Len(p) <= Len(s) /\ SubSeq(s, 1, Len(p)) = p

\* the chunks from the i-th on, each with some prefix removed, hold exactly
\* the words ws in order
RECURSIVE Reconstructs(_, _, _)
Reconstructs(cs, i, ws) ==
    IF i > Len(cs) THEN ws = <<>>
    ELSE \E k \in 0..Len(cs[i]) :
            LET w == SplitWords(DropChars(cs[i], k))
            IN /\ IsPrefixOf(w, ws)
               /\ Reconstructs(cs, i + 1, DropChars(ws, Len(w)))

\* C2: for a text longer than chunk_size, the chunks with their overlap
\* prefixes removed, concatenated, give back the text's sentences up to
\* whitespace: nothing dropped, no two sentences run together.  Stated with
\* any prefix of a chunk allowed as its overlap prefix, for
\* 0 < chunk_overlap < chunk_size.
C2_ChunksReconstructText ==
    (Done /\ ProperArgs /\ Len(call.text) > call.chunk_size)
        => Reconstructs(chunks, 1, SplitWords(call.text))

\* C3: a text no longer than chunk_size, the empty and the blank text
\* included, comes back as the one-element list [text], unchanged.
C3_ShortTextUnchanged ==
    (Done /\ Len(call.text) <= EffectiveChunkSize(splitter, call.chunk_size))
        => chunks = <<call.text>>

C3_Witness ==
    /\ Done
    /\ call.chunk_size = 2
    /\ call.text = <<" ", " ">>
    /\ chunks = <<call.text>>

\* some non-empty prefix of b is a suffix of a
SharesOverlap(a, b) ==
    \E k \in 1..Min(Len(a), Len(b)) :
        SubSeq(b, 1, k) = SubSeq(a, Len(a) - k + 1, Len(a))

\* C4: with chunk_overlap > 0, a chunk emitted on the overlap path is
\* followed by a chunk that starts with a non-empty suffix of it.  Stated
\* for the texts that hold no oversized sentence, where every chunk but the
\* last is emitted on the overlap path, and for chunk_overlap < chunk_size.
C4_AdjacentChunksOverlap ==
    (Done /\ ProperArgs /\ ~HasOversizedSentence)
        => \A i \in 1..(Len(chunks) - 1) : SharesOverlap(chunks[i], chunks[i + 1])

\* C5: a word longer than chunk_size is never cut or truncated and comes
\* out as a chunk of its own, consisting of exactly that word.  Stated for
\* 0 < chunk_overlap < chunk_size.
C5_OversizedWordOwnChunk ==
    (Done /\ ProperArgs)
        => \A j \in DOMAIN SplitWords(call.text) :
              Len(SplitWords(call.text)[j]) > call.chunk_size
                  => \E i \in DOMAIN chunks : chunks[i] = SplitWords(call.text)[j]

\* ------------------------------------------- claims on DocumentRetriever
Retrieved == op.name = "retrieve" /\ collection

\* C6: retrieve returns at most min(n_results, stored_count) results, and
\* result k is built from the k-th document, k-th metadata and k-th
\* distance the store returned, so the store's ascending-distance order is
\* kept.
C6_RetrieveZipsBestFirst ==
    Retrieved =>
        /\ op.outcome = "return"
        /\ Len(op.value) <= Min(op.n_results, Len(store))
        /\ Len(op.value) = Len(results.documents)
        /\ \A k \in DOMAIN op.value :
              op.value[k] = [content |-> results.documents[k],
                             metadata |-> results.metadatas[k],
                             distance |-> results.distances[k]]
        /\ \A k \in 1..(Len(op.value) - 1) :
              op.value[k].distance <= op.value[k + 1].distance

C6_Witness ==
    /\ Retrieved
    /\ Len(store) > op.n_results
    /\ Len(op.value) = 3
    /\ op.value[1].distance < op.value[2].distance
    /\ op.value[1].metadata # op.value[2].metadata
    /\ op.value[2].metadata # op.value[3].metadata

\* C7: on an initialized retriever whose store holds no record, retrieve
\* returns [] without raising and without calling the embedding provider or
\* the store's query.
C7_EmptyStoreReturnsEmpty ==
    (Retrieved /\ Len(store) = 0) =>
        /\ op.outcome = "return"
        /\ op.value = <<>>
        /\ \A k \in DOMAIN trace : trace[k].fn \notin {"embed_text", "query"}

C7_Witness ==
    /\ Retrieved
    /\ store = <<>>
    /\ op.n_results > 0
    /\ trace = <<Called("count", 0, TRUE)>>
    /\ op.outcome = "return"
    /\ op.value = <<>>

\* C8: a failure of the query embedding or of the store (count or query)
\* during retrieve does not reach the caller: retrieve returns [].
C8_RetrieveFailureReturnsEmpty ==
    (Retrieved /\ \E k \in DOMAIN trace : ~trace[k].ok) =>
        /\ op.outcome = "return"
        /\ op.value = <<>>

C8_Witness ==
    /\ Retrieved
    /\ Len(store) > 0
    /\ Len(trace) = 2
    /\ trace[2] = Called("embed_text", 1, FALSE)
    /\ op.outcome = "return"
    /\ op.value = <<>>

\* C9: after any sequence of add_documents calls that all returned, the ids
\* generated by the code included, the stored ids are pairwise distinct and
\* the store holds one record per document passed in: its count is the
\* number of documents added.  Stated for the runs in which no caller
\* supplied ids and no call raised.
C9_OneRecordPerDocument ==
    (added.supplied = 0 /\ added.raised = 0) =>
        /\ Len(store) = added.generated
        /\ Cardinality(StoredIds(store)) = Len(store)

\* C10: add_documents embeds all documents before the first insertion: its
\* first collaborator call embeds the whole list and only insertions
\* follow; when the embedding fails it raises with no insertion made; and
\* every stored record carries the embedding of its own document.
C10_EmbedBeforeInsert ==
    /\ (op.name = "add_documents" /\ collection) =>
          /\ trace # <<>>
          /\ trace[1].fn = "embed_texts"
          /\ trace[1].size = Len(op.documents)
          /\ \A k \in 2..Len(trace) : trace[k].fn = "add"
          /\ ~trace[1].ok => (op.outcome = "raise" /\ Len(trace) = 1)
    /\ \A k \in DOMAIN store : store[k].embedding = Embed(store[k].document)

C10_Witness ==
    /\ op.name = "add_documents"
    /\ op.outcome = "return"
    /\ Len(op.documents) > batch_size
    /\ Len(trace) = 3
    /\ Len(store) = Len(op.documents)
    /\ store[Len(store)].embedding = Embed(op.documents[Len(op.documents)])

\* the insertion calls of the last operation, in the order they were issued
InsertionCalls == SelectSeq(trace, LAMBDA c : c.fn = "add")

\* C11: an add_documents call with N documents that returns has issued
\* ceil(N/100) insertion calls, each with at most 100 records, the k-th
\* carrying the k-th run of 100 documents; into an empty store they leave
\* record k holding document k, its metadata, its id and its embedding, and
\* with no ids supplied the ids are doc_0 .. doc_{N-1} in input order.
C11_BatchedInsertion ==
    (op.name = "add_documents" /\ op.outcome = "return") =>
        LET N == Len(op.documents)
        IN /\ Len(InsertionCalls) = (N + 99) \div 100
           /\ \A k \in DOMAIN InsertionCalls :
                 /\ InsertionCalls[k].size <= 100
                 /\ InsertionCalls[k].size = Min(100, N - 100 * (k - 1))
           /\ op.count = 0 =>
                 /\ Len(store) = N
                 /\ \A k \in DOMAIN store :
                       /\ store[k].document = op.documents[k]
                       /\ store[k].metadata.chunk_id = k - 1
                       /\ store[k].embedding = Embed(op.documents[k])
                       /\ store[k].id = IF op.ids = <<>> THEN <<"doc", k - 1>>
                                        ELSE op.ids[k]

C11_Witness ==
    /\ op.name = "add_documents"
    /\ op.outcome = "return"
    /\ op.ids = <<>>
    /\ op.count = 0
    /\ Len(op.documents) > 100
    /\ Len(InsertionCalls) = 2
    /\ InsertionCalls[1].size = 100
    /\ store[Len(store)].id = <<"doc", Len(op.documents) - 1>>

DocsReturned == pc = "docs_returned"

\* the document has both keys and a dict as metadata
IsWellFormed(doc) ==
    /\ "content" \in DOMAIN doc
    /\ "metadata" \in DOMAIN doc
    /\ doc.metadata # NoneMetadata

\* the chunks of the k-th document's text; none for a malformed document
TextChunks(k) ==
    IF IsWellFormed(docs[k]) THEN split_text(splitter, docs[k].content, None, None)
    ELSE <<>>

\* the number of chunks of the documents before the k-th
RECURSIVE ChunksBefore(_)
ChunksBefore(k) == IF k <= 1 THEN 0 ELSE ChunksBefore(k - 1) + Len(TextChunks(k - 1))

StampedKeys == {"chunk_id", "total_chunks", "original_length"}

\* C12: in the list split_documents returns, the chunks of every document
\* stand contiguously, in sequence order and after those of the documents
\* before it; the metadata of a chunk is the document's metadata (source
\* and category retained) extended with chunk_id = its 0-based position
\* among the document's chunks, total_chunks = the number of chunks of the
\* document and original_length = len(document content).
C12_ChunksStampedInOrder ==
    DocsReturned =>
        /\ Len(chunked_documents) = ChunksBefore(Len(docs) + 1)
        /\ \A k \in DOMAIN docs : \A i \in DOMAIN TextChunks(k) :
              LET c == chunked_documents[ChunksBefore(k) + i]
                  m == docs[k].metadata
              IN /\ c.content = TextChunks(k)[i]
                 /\ DOMAIN c.metadata = DOMAIN m \cup StampedKeys
                 /\ \A key \in DOMAIN m \ StampedKeys : c.metadata[key] = m[key]
                 /\ c.metadata.chunk_id = i - 1
                 /\ c.metadata.total_chunks = Len(TextChunks(k))
                 /\ c.metadata.original_length = Len(docs[k].content)

C12_Witness ==
    /\ DocsReturned
    /\ Len(docs) = 2
    /\ IsWellFormed(docs[1]) /\ IsWellFormed(docs[2])
    /\ Len(TextChunks(1)) = 2 /\ Len(TextChunks(2)) = 2
    /\ docs[1].metadata.source # docs[2].metadata.source
    /\ chunked_documents[4].metadata.chunk_id = 1
    /\ chunked_documents[4].metadata.source = docs[2].metadata.source
    /\ chunked_documents[4].content # chunked_documents[3].content

\* C13: if splitting one document of a batch fails (a malformed document,
\* one lacking content or metadata), split_documents does not raise: that
\* document contributes no chunks, and the chunks of every other document
\* are still returned, in input order.
C13_MalformedDocumentSkipped ==
    pc \in {"docs_returned", "docs_raised"} =>
        /\ pc = "docs_returned"
        /\ Len(chunked_documents) = ChunksBefore(Len(docs) + 1)
        /\ \A k \in DOMAIN docs : \A i \in DOMAIN TextChunks(k) :
              chunked_documents[ChunksBefore(k) + i].content = TextChunks(k)[i]

\* ------------------------------------------------- claims on LLMManager
\* the context generate_response placed in the prompt
Context == gen.prompt.context

Generated == gen.called /\ gen.prompt # NoPrompt

\* C18: for a non-empty result list, the context holds one block per
\* result, numbered from 1 in input order, with result k's content, its
\* source identifier and its own similarity score in two decimals; when
\* the list is the output of retrieve, the relevance of block k is the
\* score the store returned for result k.
C18_BlocksCarryOwnScore ==
    (Generated /\ gen.documents # <<>>) =>
        /\ Len(Context.blocks) = Len(gen.documents)
        /\ \A k \in DOMAIN gen.documents :
              LET doc == gen.documents[k]
                  block == Context.blocks[k]
              IN /\ block.number = k
                 /\ block.content = doc.content
                 /\ ("metadata" \in DOMAIN doc /\ "source" \in DOMAIN doc.metadata)
                       => block.source = doc.metadata.source
                 /\ "similarity" \in DOMAIN doc
                       => block.relevance = Fmt2(doc.similarity)
                 /\ gen.documents \in RetrievedLists
                       => block.relevance = Fmt2(Float(doc.distance))

\* C20: build_context of an empty result list is exactly the sentence
\* 'No relevant information found in the knowledge base.', never the empty
\* string, and this is the context generate_response places in the prompt
\* when it is given no documents.
C20_EmptyListFixedSentence ==
    /\ _build_context(<<>>) = [sentence |-> NoInformation, blocks |-> <<>>]
    /\ _build_context(<<>>) # EmptyString
    /\ (Generated /\ gen.documents = <<>>) =>
          /\ Context = [sentence |-> NoInformation, blocks |-> <<>>]
          /\ gen.prompt.query = gen.query

C20_Witness ==
    /\ Generated
    /\ gen.documents = <<>>
    /\ gen.outcome = "return"
    /\ gen.value = Answer(gen.prompt)
    /\ Context.sentence = NoInformation

\* C19: every result record returned by retrieve has the fields content,
\* metadata, similarity and rank, where rank is the result's position in
\* the returned sequence.
C19_ResultFields ==
    Retrieved =>
        \A k \in DOMAIN op.value :
            /\ {"content", "metadata", "similarity", "rank"} \subseteq DOMAIN op.value[k]
            /\ op.value[k].rank = k

\* --------------------------------------------- claims on the front ends
\* the question of the last turn: the input line, trimmed
Question == Strip(turn.input.line)

\* the last turn read a line that is neither empty nor a quit word
AsksQuestion ==
    /\ turn.input.kind = "line"
    /\ Question # <<>>
    /\ Lower(Question) \notin QuitWords

\* C15: in the CLI, for every input line that is non-empty and not a quit
\* word, when the store and the hosted model do not fail, the turn calls
\* the retriever for that question, then the response generator with the
\* retrieved results, and displays the generated answer.
C15_CliTurnAnswers ==
    (frontend = "cli" /\ AsksQuestion /\ turn.rfail = "none" /\ turn.gfail = "none") =>
        /\ turn.calls = <<"retrieve", "generate_response">>
        /\ op.query = TextNumber(Question)
        /\ gen.documents = op.value
        /\ turn.display = "answer"
        /\ turn.answer = gen.value

\* C16: in the CLI loop a line equal, case-insensitively and after
\* trimming, to quit, exit or bye ends the session; an empty line triggers
\* neither retrieval nor generation and the loop prompts again; an error
\* raised while processing a turn is caught and printed and the loop goes
\* on with the next prompt.
C16_CliLoopControl ==
    (frontend = "cli" /\ turn.input.kind \in {"line", "eof"}) =>
        /\ (turn.input.kind = "line" /\ Lower(Question) \in QuitWords)
              <=> session = "ended"
        /\ (turn.input.kind = "line" /\ Question = <<>>) =>
              /\ turn.calls = <<>>
              /\ ~gen.called
              /\ op.name # "retrieve"
              /\ turn.display = "none"
              /\ session = "ready"
        /\ (turn.input.kind = "eof" \/ op.outcome = "raise" \/ gen.outcome = "raise") =>
              /\ turn.display = "error"
              /\ session = "ready"

C16_Witness ==
    /\ frontend = "cli"
    /\ turn.input.line = <<" ", "Q", "U", "I", "T", " ">>
    /\ session = "ended"
    /\ turn.calls = <<>>

\* C17: no front end special-cases an empty retrieval result: when
\* retrieve returns an empty list the front end still calls
\* generate_response, whose context is then the fixed 'No relevant
\* information found in the knowledge base.' sentence, and does not
\* substitute a reply of its own.
C17_EmptyResultStillGenerates ==
    (frontend \in FrontEnds /\ op.name = "retrieve" /\ op.outcome = "return"
        /\ op.value = <<>>) =>
        /\ turn.calls = <<"retrieve", "generate_response">>
        /\ gen.called
        /\ gen.documents = <<>>
        /\ gen.prompt # NoPrompt => Context.sentence = NoInformation
        /\ turn.display # "substitute"

\* ------------------------------------------ claims on the prompt and model
\* the pieces of the prompt generate_response built
Parts == gen.prompt.parts

\* C21: for every query, context and optional system prompt, the prompt
\* consists, in this order, of the system block (the caller's system
\* prompt when one is supplied, otherwise the default FIT-FLIX persona),
\* the 'Context Information:' label followed by the context, the 'User
\* Question:' label followed by the query, and the 'Response:' cue as
\* the final text.
C21_PromptInFixedOrder ==
    Generated =>
        /\ Len(Parts) = 6
        /\ Parts[1] = [system |-> IF gen.system_prompt = NoSystemPrompt
                                  THEN DefaultSystemPrompt ELSE gen.system_prompt]
        /\ Parts[2] = [label |-> "\n\nContext Information:\n"]
        /\ Parts[3] = [context |-> _build_context(gen.documents)]
        /\ Parts[4] = [label |-> "\n\nUser Question: "]
        /\ Parts[5] = [query |-> gen.query]
        /\ Parts[6] = [label |-> "\n\nResponse:"]

C21_Witness ==
    /\ Generated
    /\ gen.outcome = "return"
    /\ gen.system_prompt = "You are a test assistant."
    /\ gen.documents # <<>>
    /\ Parts[1] = [system |-> "You are a test assistant."]
    /\ Parts[6] = [label |-> "\n\nResponse:"]

\* the last operation ran initialize and it raised
InitFailed == llmop.trace # <<>> /\ llmop.trace[1] = Called("initialize", 0, FALSE)

GeminiName == Contains(Lower(llm.model_name), Gemini)

GptName == Contains(Lower(llm.model_name), Gpt)

\* C22: the manager starts with no model, and its model becomes loaded
\* only through an initialize that succeeds, which requires a name
\* containing 'gemini' and an API key; a 'gemini' name without a key
\* raises ValueError, otherwise a name containing 'gpt' raises
\* NotImplementedError and any other name ValueError; a failed initialize
\* (direct, or the one inside generate_response) leaves the model as it
\* was, None for a manager that had none, get_model_info then reports
\* initialized = false, and the hosted model has not been called.
C22_ModelLoadedOnlyByInitialize ==
    /\ llmop.name = "none" => ~model
    /\ model => (GeminiName /\ llm.google_api_key)
    /\ (model /\ ~llmop.had_model) =>
          (llmop.trace # <<>> /\ llmop.trace[1] = Called("initialize", 0, TRUE))
    /\ (llmop.name = "initialize" /\ llmop.outcome = "raise") => InitFailed
    /\ InitFailed =>
          /\ llmop.outcome = "raise"
          /\ model = llmop.had_model
          /\ (GeminiName /\ ~llm.google_api_key) => llmop.error = "ValueError"
          /\ (~GeminiName /\ GptName) => llmop.error = "NotImplementedError"
          /\ (~GeminiName /\ ~GptName) => llmop.error = "ValueError"
          /\ \A k \in DOMAIN llmop.trace : llmop.trace[k].fn # "generate_content"
          /\ (llmop.info # NoInfo /\ ~llmop.had_model) => ~llmop.info.initialized
    /\ llmop.info # NoInfo => llmop.info.initialized = model

C22_Witness ==
    /\ llmop.name = "generate_response"
    /\ InitFailed
    /\ ~llmop.had_model
    /\ GeminiName
    /\ llm.google_api_key
    /\ ~model
    /\ llmop.info = [model_name |-> llm.model_name, initialized |-> FALSE]

\* ------------------------------------------- more claims on split_text
\* the argument's value, the configured default taking its place only
\* when the argument is None
Supplied(arg, default) == IF arg = None THEN default ELSE arg

\* the split of a text with a given chunk size and overlap
SplitWith(text, chunk_size, chunk_overlap) ==
    IF Len(text) <= chunk_size THEN <<text>>
    ELSE SplitLongText(text, chunk_size, chunk_overlap)

\* C23: split_text uses the configured default chunk_size / chunk_overlap
\* only when the corresponding argument is None: every explicitly
\* supplied value, including chunk_overlap = 0, is the value the split is
\* made with.
C23_SuppliedValuesUsed ==
    Done => chunks = SplitWith(call.text,
                               Supplied(call.chunk_size, splitter.chunk_size),
                               Supplied(call.chunk_overlap, splitter.chunk_overlap))

\* the passes of the sentence loop from sentence i on that emit the
\* buffer and start a new one (lines 84-90): the buffer emitted, the
\* sentence that did not fit, and the new buffer
RECURSIVE EmissionsFrom(_, _, _, _, _)
EmissionsFrom(sentences, i, st, chunk_size, chunk_overlap) ==
    IF i > Len(sentences) THEN <<>>
    ELSE LET emits == /\ Len(st.current_chunk) + Len(sentences[i]) > chunk_size
                      /\ st.current_chunk # <<>>
             next == SentenceStep(st, sentences[i], chunk_size, chunk_overlap)
         IN (IF emits
             THEN <<[emitted |-> st.current_chunk, sentence |-> sentences[i],
                     buffer |-> next.current_chunk]>>
             ELSE <<>>)
            \o EmissionsFrom(sentences, i + 1, next, chunk_size, chunk_overlap)

\* the emissions of the call, when its text is longer than the chunk size
Emissions ==
    IF Len(call.text) <= EffectiveChunkSize(splitter, call.chunk_size) THEN <<>>
    ELSE EmissionsFrom(_split_by_sentences(call.text), 1,
                       [chunks |-> <<>>, current_chunk |-> <<>>],
                       EffectiveChunkSize(splitter, call.chunk_size),
                       EffectiveChunkOverlap(splitter, call.chunk_overlap))

\* what the new buffer holds before the new sentence
Carried(e) == SubSeq(e.buffer, 1, Len(e.buffer) - Len(e.sentence))

IsSuffixOf(t, s) == Len(t) <= Len(s) /\ SubSeq(s, Len(s) - Len(t) + 1, Len(s)) = t

\* the suffix t of s starts between two characters of one word
BeginsMidWord(t, s) ==
    /\ t # <<>>
    /\ Len(t) < Len(s)
    /\ ~IsSpace(s[Len(s) - Len(t)])
    /\ ~IsSpace(t[1])

\* C25: whenever split_text emits a chunk on the sentence path and starts
\* a new buffer, the text carried over is a suffix of the emitted buffer,
\* at most chunk_overlap characters long, that does not begin in the
\* middle of a word; with chunk_overlap = 0 nothing is carried over and
\* the new buffer is exactly the new sentence.
C25_CarriedOverlapAtWordStart ==
    Done =>
        \A k \in DOMAIN Emissions :
            LET e == Emissions[k]
                chunk_overlap == Supplied(call.chunk_overlap, splitter.chunk_overlap)
            IN /\ Strip(e.emitted) \in {chunks[j] : j \in DOMAIN chunks}
               /\ IsSuffixOf(e.sentence, e.buffer)
               /\ IsSuffixOf(Carried(e), e.emitted)
               /\ Len(Carried(e)) <= chunk_overlap
               /\ ~BeginsMidWord(Carried(e), e.emitted)
               /\ chunk_overlap = 0 => e.buffer = e.sentence

\* ------------------------------------------ more claims on the retriever
\* C26: add_documents is all-or-nothing with respect to the store: when a
\* call raises (for example because the store rejects the second batch
\* of a call with more than 100 documents), the store holds exactly the
\* records it held before the call.
C26_AddAllOrNothing ==
    [][(nadds' = nadds + 1 /\ op'.name = "add_documents" /\ op'.outcome = "raise")
          => store' = store]_vars

\* ------------------------------------------ more claims on the front ends
\* the positions of st that hold chunk k of the knowledge base
RecordsOfChunk(st, k) ==
    {i \in DOMAIN st :
        "chunk_id" \in DOMAIN st[i].metadata /\ st[i].metadata.chunk_id = k}

\* st holds one record for every one of the kb chunks of the knowledge base
CompleteIndex(st, kb) ==
    \A k \in 0..(kb - 1) : Cardinality(RecordsOfChunk(st, k)) = 1

\* st holds nothing but chunks of that knowledge base (no records an
\* earlier run made of another one)
OnlyChunksOf(st, kb) ==
    \A i \in DOMAIN st :
        "chunk_id" \in DOMAIN st[i].metadata /\ st[i].metadata.chunk_id < kb

\* C27: in the Gradio app, across any sequence of chat turns (including
\* turns in which initialization failed and was retried on a later
\* message), whenever is_initialized is true the vector store holds one
\* stored record for every chunk of the knowledge base; once
\* is_initialized is true, initialization and indexing are never run
\* again.  The store changes only in initialize_system, so the index is
\* looked at in the step that sets is_initialized.
C27_InitializedMeansCompleteIndex ==
    [][frontend = "gradio" =>
          /\ (session = "new" /\ session' = "ready"
                  /\ OnlyChunksOf(store', turn'.kb))
                => CompleteIndex(store', turn'.kb)
          /\ session = "ready"
                => (session' = "ready" /\ store' = store /\ turn'.kb = None)]_vars

\* ------------------------------------------ claims on split_text, by steps
\* C28: split_text terminates and returns a finite list of chunks for
\* every text, every chunk_size > 0 and every chunk_overlap >= 0, the
\* case chunk_overlap >= chunk_size included: every call that is entered
\* returns, and what it returns is the list of chunks of the call.
C28_SplitTextTerminates ==
    <>(/\ pc = "returned"
       /\ chunks = split_text(splitter, call.text, call.chunk_size, call.chunk_overlap))

\* a call with an overlap as large as the chunk size has been through both
\* loops and returned several chunks
C28_Witness ==
    /\ pc = "returned"
    /\ call.chunk_size > 0
    /\ call.chunk_overlap >= call.chunk_size
    /\ frame.words # <<>>
    /\ frame.i > 2
    /\ Len(chunks) > 1
    /\ chunks = split_text(splitter, call.text, call.chunk_size, call.chunk_overlap)

\* ----------------------------------------------- claims on DocumentLoader
\* the files of the directory that are markdown or text files, can be
\* read and are not empty once cleaned
LoadableFiles ==
    {i \in DOMAIN knowledge_base.files :
        LET file == knowledge_base.files[i]
        IN /\ file.readable
           /\ \/ EndsWith(file.name, Md) /\ file.content.kind = "prose"
              \/ EndsWith(file.name, Txt) /\ file.content.kind # "blank"}

\* C24: a failure reading one file never aborts the batch load:
\* load_all_documents returns, skips the file that cannot be read and
\* holds one record for every other readable, non-empty markdown and text
\* file (when the listing of its kind did not fail); a missing directory
\* yields the empty list.
C24_UnreadableFileSkipped ==
    pc = "loaded" =>
        /\ loaded.outcome = "return"
        /\ ~knowledge_base.exists => loaded.value = <<>>
        /\ \A i \in DOMAIN knowledge_base.files :
              LET file == knowledge_base.files[i]
                  records == {k \in DOMAIN loaded.value :
                                 loaded.value[k].metadata.source = file.name}
              IN /\ ~file.readable => records = {}
                 /\ (i \in LoadableFiles /\ loaded.fail = "none") =>
                       /\ Cardinality(records) = 1
                       /\ \A k \in records :
                             loaded.value[k].content.text = file.content.text
        /\ loaded.fail = "none" => Len(loaded.value) = Cardinality(LoadableFiles)

C24_Witness ==
    /\ pc = "loaded"
    /\ loaded.fail = "none"
    /\ Len(knowledge_base.files) = 2
    /\ ~knowledge_base.files[1].readable
    /\ EndsWith(knowledge_base.files[1].name, Md)
    /\ EndsWith(knowledge_base.files[2].name, Md)
    /\ Len(loaded.value) = 1
    /\ loaded.value[1].metadata.source = knowledge_base.files[2].name

\* C29: whenever reset_collection returns without raising, the collection
\* holds zero records and get_retrieval_stats then reports document_count 0
\* with status 'ready', whether or not the retriever had been initialized
\* before and whether or not the deletion inside it succeeded
C29_ResetLeavesEmptyCollection ==
    (op.name = "reset_collection" /\ op.outcome = "return") =>
        /\ store = <<>>
        /\ get_retrieval_stats(collection, store, "none").value = Stats(0, "ready")

\* C30: the CLI session always eventually ends once its input is exhausted:
\* reaching end-of-input at the prompt terminates the interactive loop,
\* after every sequence of preceding turns
C30_CliEndsAtEndOfInput ==
    (frontend = "cli" /\ turn.input.kind = "eof") ~> (session = "ended")

====
